---- MODULE Spec2Model ----
(***************************************************************************)
(* A model of MyISO: the image analyser, the byte streamer and the         *)
(* orchestrator (main, setupPersistence, setupFallbackPersistence) with    *)
(* the device-access and bootloader steps they call.                       *)
(*                                                                         *)
(* The specifications share the variables:                                 *)
(*   SpecAnalyse  analyzeISO, determineBurnStrategy,                       *)
(*                calculateRequiredPartitions, burnWithStrategy            *)
(*   SpecBurn     burnRawMode / burnFastMode, one read, write or sendfile  *)
(*                call per step                                            *)
(*   Spec         one run of main(), one call per step                     *)
(*   SpecTable    PartitionTable on sector 0: createMBR, createGPT,        *)
(*                addMBRPartition, alone and as setupPersistence calls     *)
(*                them                                                     *)
(*   SpecPaths    the partition paths the persistence pipeline derives     *)
(* Each specification holds the variables of the others at their idle      *)
(* values.                                                                 *)
(***************************************************************************)
EXTENDS Integers, Sequences, FiniteSets, TLC

VARIABLES
    \* ---- image analyser
    image,              \* what the analyser's checks find in the image file
    withPersistence,    \* the caller's with-persistence flag
    structure,          \* ISOAnalyzer::ISOStructure
    strategy,           \* ISOAnalyzer::BurnStrategy chosen
    requiredPartitions, \* result of calculateRequiredPartitions
    burner,             \* the IntelligentBurner method burnWithStrategy ran
    apc,                \* position of the analyser's caller
    \* ---- byte streamer (ISOBurner)
    src,                \* the image file's bytes
    dst,                \* the destination's bytes, 0 where never written
    bmode,              \* BurnMode the caller asked for
    bpc,                \* position in burnRawMode / burnFastMode
    fds,                \* descriptors: fast mode's fin, fout; raw mode's rin, rout
    inPos,              \* file offset of the open input descriptor
    outPos,             \* file offset of the open output descriptor
    buffer,             \* the bytes the last read() put in alignedBuffer
    bufState,           \* alignedBuffer: none, alloc, freed, double_free
    bytesRead,          \* burnRawMode's bytesRead
    totalWritten,       \* burnRawMode's totalWritten (within the chunk)
    bytesWritten,       \* burnRawMode's bytesWritten
    fastWritten,        \* burnFastMode's bytesWritten
    bresult,            \* what the call returned or threw
    readFailed,         \* a read() returned -1
    sendErrno,          \* errno of a failed sendfile()
    fellBack,           \* burnFastMode called burnRawMode
    \* ---- one run of main()
    argv,               \* what the command line is: empty, help, bad, ok
    opts,               \* Options, as parseArguments fills it
    iso,                \* the image file: size in sectors, hybrid, boot type
    deviceSize,         \* size of the target device, in 512-byte sectors
    mtab,               \* sources of the entries of /etc/mtab
    kparts,             \* partition numbers of the target the kernel shows
    disk,               \* contents of the target device, by region
    pc,                 \* position in main / setupPersistence / fallback
    path,               \* main, primary (setupPersistence) or fallback
    persistenceSizeMB,  \* setupPersistence's persistenceSizeMB
    exitCode,           \* -1 while running, else the process's exit status
    outcome,            \* running, or how the run ended: success, dry_run, ..., or the error
    primaryErr,         \* what setupPersistence threw, or none
    log,                \* the steps taken on the device, in order
    mountedAt,          \* steps begun while a partition of the target was mounted
    report,             \* what the insufficient-space message says
    answer,             \* what was typed at "Continue? (yes/no)", or none
    nodeAt,             \* the check at which the partition nodes are there, 0 before
    statSeen,           \* partition numbers whose node a stat() has found
    \* PartitionTable
    tdeviceMB,          \* size of the device, in MiB
    trun,               \* the persistence run's sizes, filesystem and table type
    mbr,                \* sector 0 of the device
    tpc,                \* position: of setupPersistence's table steps, or calls
    tlast,              \* the last addMBRPartition call and how it ended
    tbefore,            \* sector 0 before that call
    \* partition paths
    pdevice,            \* the device path given with -o
    ppc,                \* position in the pipeline
    derived,            \* the partition paths derived so far, by use
    \* calculateCHS
    lba,                \* the argument
    chs,                \* the three bytes written
    cpc,                \* before or after the call
    \* FAT32Creator
    fsectors,           \* sectorCount: the size of the partition, in sectors
    fatfs,              \* what the formatter has written, and where
    fpc,                \* the step of create()
    \* wipeDevice
    wsize,              \* the size of the device
    zeroed,             \* the units of the device written with zeroes
    wpos,               \* the file position of the descriptor
    wtotal,             \* totalWritten
    wpc,                \* the loop wipeDevice is in
    \* EXT4Creator
    eblocks,            \* blockCount: the size of the partition, in blocks
    esuper,             \* the superblock the medium holds
    ereads,             \* the offsets create() has read back
    eresult,            \* what create() returned or threw, or none
    epc                 \* the step of create()

avars == <<image, withPersistence, structure, strategy, requiredPartitions,
           burner, apc>>

bvars == <<src, dst, bmode, bpc, fds, inPos, outPos, buffer, bufState, bytesRead,
           totalWritten, bytesWritten, fastWritten, bresult, readFailed, sendErrno,
           fellBack>>

mvars == <<argv, opts, iso, deviceSize, mtab, kparts, disk, pc, path,
           persistenceSizeMB, exitCode, outcome, primaryErr, log, mountedAt,
           report, answer, nodeAt, statSeen>>

tvars == <<tdeviceMB, trun, mbr, tpc, tlast, tbefore>>

pvars == <<pdevice, ppc, derived>>

cvars == <<lba, chs, cpc>>

\* The parts that model one function each.
fvars == <<fsectors, fatfs, fpc>>

wvars == <<wsize, zeroed, wpos, wtotal, wpc>>

evars == <<eblocks, esuper, ereads, eresult, epc>>

yvars == <<cvars, fvars, wvars, evars>>

xvars == <<tvars, pvars, yvars>>

\* The parts that model the pipeline.
core == <<avars, bvars, mvars, tvars, pvars>>

vars == <<avars, bvars, mvars, xvars>>

-----------------------------------------------------------------------------
(* The values the variables of a part hold while another part runs         *)

NoStructure ==
    [isHybrid |-> FALSE, hasElTorito |-> FALSE, hasUEFI |-> FALSE,
     hasLegacyBoot |-> FALSE, isMultiBoot |-> FALSE, embeddedPartitions |-> 0]

AnalyseIdle ==
    /\ image = [hybrid |-> FALSE, elTorito |-> FALSE, uefi |-> FALSE, embedded |-> 0]
    /\ withPersistence = FALSE
    /\ structure = NoStructure
    /\ strategy = "none"
    /\ requiredPartitions = 0
    /\ burner = "none"
    /\ apc = "idle"

NoFds == [fin |-> "unopened", fout |-> "unopened", rin |-> "unopened", rout |-> "unopened"]

BurnIdle ==
    /\ src = << >>
    /\ dst = << >>
    /\ bmode = "none"
    /\ bpc = "idle"
    /\ fds = NoFds
    /\ inPos = 0
    /\ outPos = 0
    /\ buffer = << >>
    /\ bufState = "none"
    /\ bytesRead = 0
    /\ totalWritten = 0
    /\ bytesWritten = 0
    /\ fastWritten = 0
    /\ bresult = "none"
    /\ readFailed = FALSE
    /\ sendErrno = "none"
    /\ fellBack = FALSE

\* Options as constructed (src/main.cpp:18-29).
DefaultOptions ==
    [device |-> << >>, usePersistence |-> FALSE, persistenceSize |-> 0,
     fsType |-> "EXT4", useFastMode |-> FALSE, dryRun |-> FALSE,
     aggressiveInfo |-> FALSE, forceOperation |-> FALSE, tableType |-> "MBR"]

NoReport == [said |-> "none", maxMB |-> 0]

OldDisk == [boot |-> "old", table |-> "old", entries |-> 0, body |-> "old",
            p1 |-> "none", p2 |-> "none"]

MainIdle ==
    /\ argv = "none"
    /\ opts = DefaultOptions
    /\ iso = [size |-> 0, hybrid |-> FALSE, bootType |-> "SYSLINUX"]
    /\ deviceSize = 0
    /\ mtab = {}
    /\ kparts = {}
    /\ disk = OldDisk
    /\ pc = "idle"
    /\ path = "main"
    /\ persistenceSizeMB = 0
    /\ exitCode = -1
    /\ outcome = "running"
    /\ primaryErr = "none"
    /\ log = << >>
    /\ mountedAt = {}
    /\ report = NoReport
    /\ answer = "none"
    /\ nodeAt = 0
    /\ statSeen = {}

\* MBRPartitionEntry, without its CHS bytes.
EmptyEntry == [status |-> 0, partitionType |-> 0, firstLBA |-> 0, sectorCount |-> 0]

\* MBR::bootCode, 440 bytes: the first eight, and the value of each of the
\* other 432.
ZeroBootCode == [stub |-> <<0, 0, 0, 0, 0, 0, 0, 0>>, fill |-> 0]

\* struct MBR with every byte zero.
ZeroSector == [bootCode |-> ZeroBootCode, diskSignature |-> 0, reserved |-> 0,
               partitions |-> [i \in 1..4 |-> EmptyEntry], signature |-> 0]

NoRun == [isoMB |-> 0, persistMB |-> 0, fsType |-> "EXT4", tableType |-> "MBR"]

NoCall == [op |-> "none", startLBA |-> 0, sectorCount |-> 0, type |-> 0,
           bootable |-> FALSE, result |-> "none"]

TableIdle ==
    /\ tdeviceMB = 0
    /\ trun = NoRun
    /\ mbr = ZeroSector
    /\ tpc = "idle"
    /\ tlast = NoCall
    /\ tbefore = ZeroSector

\* No path derived yet, for each use of a partition path.
NoPaths == [checked1 |-> << >>, formatted1 |-> << >>, written1 |-> << >>,
            burnBoot1 |-> << >>, formatted2 |-> << >>, boot1 |-> << >>,
            fallback1 |-> << >>]

PathsIdle ==
    /\ pdevice = << >>
    /\ ppc = "idle"
    /\ derived = NoPaths

ChsIdle ==
    /\ lba = 0
    /\ chs = <<0, 0, 0>>
    /\ cpc = "idle"

\* Nothing of a FAT32 filesystem written: -1 for a place not written.
NoFat == [FATSize32 |-> -1, totalSectors32 |-> -1, fsInfo |-> FALSE,
          fat1At |-> -1, fat1 |-> << >>, fat2At |-> -1, fat2 |-> << >>,
          rootAt |-> -1]

FatIdle ==
    /\ fsectors = 0
    /\ fatfs = NoFat
    /\ fpc = "idle"

WipeIdle ==
    /\ wsize = 0
    /\ zeroed = {}
    /\ wpos = 0
    /\ wtotal = 0
    /\ wpc = "idle"

NoSuperBlock == [s_magic |-> 0, s_blocks_count_lo |-> 0, s_inodes_count |-> 0]

Ext4Idle ==
    /\ eblocks = 0
    /\ esuper = NoSuperBlock
    /\ ereads = {}
    /\ eresult = "none"
    /\ epc = "idle"

\* The single functions other than the one a specification runs.
IdleBut(part) ==
    /\ part # "chs" => ChsIdle
    /\ part # "fat" => FatIdle
    /\ part # "wipe" => WipeIdle
    /\ part # "ext4" => Ext4Idle

FunctionsIdle == IdleBut("none")

CoreIdle ==
    /\ AnalyseIdle
    /\ BurnIdle
    /\ MainIdle
    /\ TableIdle
    /\ PathsIdle

-----------------------------------------------------------------------------
(* Byte streamer: ISOBurner::burnRawMode and burnFastMode                  *)

\* Largest image of the byte-level model, in bytes.
MaxLen == 4
\* BUFFER_SIZE of burnRawMode (4 MiB in the code), in bytes of the model.
BufferUnits == 2
\* CHUNK_SIZE of burnFastMode (16 MiB in the code), in bytes of the model.
ChunkUnits == 2

Min(a, b) == IF a <= b THEN a ELSE b

\* close(fd): a second close of the same descriptor is recorded.
Close(st) == IF st = "open" THEN "closed" ELSE "closed2"

\* free(alignedBuffer): a second free of the same block is recorded.
Free(st) == IF st = "alloc" THEN "freed" ELSE "double_free"

\* write()/sendfile() of the bytes `data` at offset `pos` of the destination.
WriteAt(d, pos, data) ==
    [i \in DOMAIN d |->
        IF i > pos /\ i <= pos + Len(data) THEN data[i - pos] ELSE d[i]]

\* A slip: the raw fallback goes on reading where sendfile stopped.
ReopenedSourceOffset_Reuse(prev) == prev

\* open(isoPath, O_RDONLY) in burnRawMode: a new descriptor, at offset 0
\* whatever the offset of an earlier descriptor was.
ReopenedSourceOffset(prev) == 0

\* A slip: a short write is taken for a full one.
ChunkDone_NoLoop(written, wanted) == TRUE

\* The inner loop of burnRawMode ends: totalWritten < bytesRead is false.
ChunkDone(written, wanted) == ~(written < wanted)

InitBurn ==
    /\ src \in {[i \in 1..n |-> i] : n \in 0..MaxLen}
    /\ dst = [i \in 1..MaxLen |-> 0]
    /\ bmode \in {"RAW", "FAST"}
    /\ bpc = "start"
    /\ fds = NoFds
    /\ inPos = 0
    /\ outPos = 0
    /\ buffer = << >>
    /\ bufState = "none"
    /\ bytesRead = 0
    /\ totalWritten = 0
    /\ bytesWritten = 0
    /\ fastWritten = 0
    /\ bresult = "none"
    /\ readFailed = FALSE
    /\ sendErrno = "none"
    /\ fellBack = FALSE
    /\ TableIdle
    /\ PathsIdle
    /\ FunctionsIdle
    /\ AnalyseIdle
    /\ MainIdle

\* An exception leaving burnRawMode after the sendfile fallback passes through
\* the catch (...) of burnFastMode, which closes its two descriptors again.
Unwound(f) ==
    IF fellBack THEN [f EXCEPT !.fin = Close(@), !.fout = Close(@)] ELSE f

\* burnISO's switch on the mode.
BurnStart ==
    /\ bpc = "start"
    /\ bpc' = IF bmode = "RAW" THEN "raw_open" ELSE "fast_open"
    /\ UNCHANGED <<src, dst, bmode, fds, inPos, outPos, buffer, bufState, bytesRead,
                   totalWritten, bytesWritten, fastWritten, bresult, readFailed, sendErrno,
                   fellBack>>
    /\ UNCHANGED avars
    /\ UNCHANGED <<mvars, xvars>>

\* burnRawMode: the two open() calls (O_DIRECT, else O_SYNC only).
RawOpen ==
    /\ bpc = "raw_open"
    /\ \E inOk \in BOOLEAN, outOk \in BOOLEAN :
         IF ~inOk
         THEN /\ fds' = Unwound(fds)
              /\ bresult' = "FileError"
              /\ bpc' = "done"
              /\ UNCHANGED <<inPos, outPos>>
         ELSE IF ~outOk
         THEN /\ fds' = Unwound([fds EXCEPT !.rin = "closed"])
              /\ bresult' = "DeviceError"
              /\ bpc' = "done"
              /\ UNCHANGED <<inPos, outPos>>
         ELSE /\ fds' = [fds EXCEPT !.rin = "open", !.rout = "open"]
              /\ inPos' = ReopenedSourceOffset(inPos)
              /\ outPos' = 0
              /\ bpc' = "raw_alloc"
              /\ UNCHANGED bresult
    /\ UNCHANGED <<src, dst, bmode, buffer, bufState, bytesRead, totalWritten,
                   bytesWritten, fastWritten,
                   readFailed, sendErrno, fellBack>>
    /\ UNCHANGED avars
    /\ UNCHANGED <<mvars, xvars>>

\* burnRawMode: getISOSize and posix_memalign.
RawAlloc ==
    /\ bpc = "raw_alloc"
    /\ \E r \in {"ok", "stat_failed", "no_memory"} :
         CASE r = "ok" ->
                /\ bufState' = "alloc"
                /\ bpc' = "raw_read"
                /\ UNCHANGED <<fds, bresult>>
           [] r = "stat_failed" ->
                /\ fds' = Unwound(fds)
                /\ bresult' = "FileError"
                /\ bpc' = "done"
                /\ UNCHANGED bufState
           [] r = "no_memory" ->
                /\ fds' = Unwound([fds EXCEPT !.rin = Close(@), !.rout = Close(@)])
                /\ bresult' = "MyISOException"
                /\ bpc' = "done"
                /\ UNCHANGED bufState
    /\ UNCHANGED <<src, dst, bmode, inPos, outPos, buffer, bytesRead, totalWritten,
                   bytesWritten, fastWritten, readFailed, sendErrno, fellBack>>
    /\ UNCHANGED avars
    /\ UNCHANGED <<mvars, xvars>>

\* The results read(inputFd, buffer, BUFFER_SIZE) can have at offset pos:
\* -1, 0 at the end of the file, else any size up to the buffer and the file.
ReadResults(pos) ==
    {-1} \cup (IF pos >= Len(src) THEN {0}
               ELSE 1..Min(BufferUnits, Len(src) - pos))

\* burnRawMode: one evaluation of the outer loop's read().
RawRead ==
    /\ bpc = "raw_read"
    /\ \E n \in ReadResults(inPos) :
         IF n > 0
         THEN /\ buffer' = SubSeq(src, inPos + 1, inPos + n)
              /\ inPos' = inPos + n
              /\ bytesRead' = n
              /\ totalWritten' = 0
              /\ bpc' = "raw_write"
              /\ UNCHANGED <<bufState, readFailed>>
         ELSE /\ readFailed' = (readFailed \/ n < 0)
              /\ bufState' = Free(bufState)
              /\ bpc' = "raw_finish"
              /\ UNCHANGED <<buffer, inPos, bytesRead, totalWritten>>
    /\ UNCHANGED <<src, dst, bmode, fds, outPos, bytesWritten, fastWritten, bresult,
                   sendErrno, fellBack>>
    /\ UNCHANGED avars
    /\ UNCHANGED <<mvars, xvars>>

\* burnRawMode: one write() of the inner loop. A failed write frees and closes,
\* throws, and the catch (...) frees and closes once more before rethrowing;
\* after the second free() the process either goes on or is aborted.
RawWrite ==
    /\ bpc = "raw_write"
    /\ \E w \in (-1)..(bytesRead - totalWritten) :
         IF w < 0
         THEN /\ bufState' = Free(Free(bufState))
              /\ fds' = Unwound([fds EXCEPT !.rin = Close(Close(@)),
                                             !.rout = Close(Close(@))])
              /\ bresult' \in {"DeviceError", "abort"}
              /\ bpc' = "done"
              /\ UNCHANGED <<dst, outPos, totalWritten, bytesWritten>>
         ELSE /\ dst' = WriteAt(dst, outPos, SubSeq(buffer, totalWritten + 1, totalWritten + w))
              /\ outPos' = outPos + w
              /\ totalWritten' = totalWritten + w
              /\ IF ChunkDone(totalWritten + w, bytesRead)
                 THEN /\ bytesWritten' = bytesWritten + bytesRead
                      /\ bpc' = "raw_read"
                 ELSE UNCHANGED <<bytesWritten, bpc>>
              /\ UNCHANGED <<bufState, fds, bresult>>
    /\ UNCHANGED <<src, bmode, inPos, buffer, bytesRead, fastWritten, readFailed,
                   sendErrno, fellBack>>
    /\ UNCHANGED avars
    /\ UNCHANGED <<mvars, xvars>>

\* burnRawMode after the loop: fsync, close both, sync, return true.
RawFinish ==
    /\ bpc = "raw_finish"
    /\ fds' = [fds EXCEPT !.rin = Close(@), !.rout = Close(@)]
    /\ bresult' = "true"
    /\ bpc' = "done"
    /\ UNCHANGED <<src, dst, bmode, inPos, outPos, buffer, bufState, bytesRead,
                   totalWritten, bytesWritten, fastWritten, readFailed, sendErrno, fellBack>>
    /\ UNCHANGED avars
    /\ UNCHANGED <<mvars, xvars>>

\* burnFastMode: the two open() calls and getISOSize, which throws when stat
\* fails.
FastOpen ==
    /\ bpc = "fast_open"
    /\ \E inOk \in BOOLEAN, outOk \in BOOLEAN, statOk \in BOOLEAN :
         IF ~inOk
         THEN /\ bresult' = "FileError"
              /\ bpc' = "done"
              /\ UNCHANGED <<fds, inPos, outPos>>
         ELSE IF ~outOk
         THEN /\ fds' = [fds EXCEPT !.fin = "closed"]
              /\ bresult' = "DeviceError"
              /\ bpc' = "done"
              /\ UNCHANGED <<inPos, outPos>>
         ELSE /\ fds' = [fds EXCEPT !.fin = "open", !.fout = "open"]
              /\ inPos' = 0
              /\ outPos' = 0
              /\ bpc' = IF statOk THEN "fast_loop" ELSE "done"
              /\ bresult' = IF statOk THEN bresult ELSE "FileError"
    /\ UNCHANGED <<src, dst, bmode, buffer, bufState, bytesRead, totalWritten,
                   bytesWritten, fastWritten, readFailed, sendErrno, fellBack>>
    /\ UNCHANGED avars
    /\ UNCHANGED <<mvars, xvars>>

\* burnFastMode: one sendfile() of the loop. EINVAL or ENOSYS closes both
\* descriptors and calls burnRawMode; another error closes both, throws, and
\* the catch (...) closes both again before rethrowing.
FastSend ==
    /\ bpc = "fast_loop"
    /\ fastWritten < Len(src)
    /\ LET toWrite == Min(ChunkUnits, Len(src) - fastWritten)
       IN  \E sent \in {-1} \cup (1..toWrite), errno \in {"EINVAL", "ENOSYS", "EIO"} :
             CASE sent <= 0 /\ errno \in {"EINVAL", "ENOSYS"} ->
                    /\ fds' = [fds EXCEPT !.fin = Close(@), !.fout = Close(@)]
                    /\ sendErrno' = errno
                    /\ fellBack' = TRUE
                    /\ bpc' = "raw_open"
                    /\ UNCHANGED <<dst, inPos, outPos, fastWritten, bresult>>
               [] sent <= 0 /\ errno \notin {"EINVAL", "ENOSYS"} ->
                    /\ fds' = [fds EXCEPT !.fin = Close(Close(@)), !.fout = Close(Close(@))]
                    /\ sendErrno' = errno
                    /\ bresult' = "DeviceError"
                    /\ bpc' = "done"
                    /\ UNCHANGED <<dst, inPos, outPos, fastWritten, fellBack>>
               [] OTHER ->
                    /\ dst' = WriteAt(dst, outPos, SubSeq(src, inPos + 1, inPos + sent))
                    /\ inPos' = inPos + sent
                    /\ outPos' = outPos + sent
                    /\ fastWritten' = fastWritten + sent
                    /\ UNCHANGED <<fds, sendErrno, fellBack, bpc, bresult>>
    /\ UNCHANGED <<src, bmode, buffer, bufState, bytesRead, totalWritten, bytesWritten,
                   readFailed>>
    /\ UNCHANGED avars
    /\ UNCHANGED <<mvars, xvars>>

\* burnFastMode after the loop: fsync, close both, sync, return true.
FastFinish ==
    /\ bpc = "fast_loop"
    /\ ~(fastWritten < Len(src))
    /\ fds' = [fds EXCEPT !.fin = Close(@), !.fout = Close(@)]
    /\ bresult' = "true"
    /\ bpc' = "done"
    /\ UNCHANGED <<src, dst, bmode, inPos, outPos, buffer, bufState, bytesRead,
                   totalWritten, bytesWritten, fastWritten, readFailed, sendErrno, fellBack>>
    /\ UNCHANGED avars
    /\ UNCHANGED <<mvars, xvars>>

NextBurn ==
    \/ BurnStart
    \/ RawOpen \/ RawAlloc \/ RawRead \/ RawWrite \/ RawFinish
    \/ FastOpen \/ FastSend \/ FastFinish

SpecBurn == InitBurn /\ [][NextBurn]_vars

-----------------------------------------------------------------------------
(* C1, C2                                                                  *)

\* The first Len(src) bytes of the destination are the source's.
DestinationEqualsSource ==
    \A i \in 1..Len(src) : dst[i] = src[i]

-----------------------------------------------------------------------------
(* Image analyser                                                          *)

\* An MBR holds four partition entries: the loop bound of
\* extractEmbeddedPartitions.
MbrEntries == 4

Max(a, b) == IF a >= b THEN a ELSE b

\* SmartAnalyzer::analyzeISO: the three checks, the derived flags and the
\* embedded partitions (only their number is read by the callers).
analyzeISO(img) ==
    LET legacy == img.elTorito \/ img.hybrid
    IN  [isHybrid           |-> img.hybrid,
         hasElTorito        |-> img.elTorito,
         hasUEFI            |-> img.uefi,
         hasLegacyBoot      |-> legacy,
         isMultiBoot        |-> img.uefi /\ legacy,
         embeddedPartitions |-> img.embedded]

\* A slip: the persistence partition is not counted.
calculateRequiredPartitions_NoPersist(s, persist) ==
    LET p1 == IF s.isHybrid /\ s.embeddedPartitions # 0
              THEN s.embeddedPartitions ELSE 1
        p2 == IF s.isMultiBoot THEN Max(p1, 2) ELSE p1
    IN  IF s.hasUEFI /\ ~s.isHybrid THEN Max(p2, 2) ELSE p2

\* SmartAnalyzer::calculateRequiredPartitions
calculateRequiredPartitions(s, persist) ==
    LET p1 == IF s.isHybrid /\ s.embeddedPartitions # 0
              THEN s.embeddedPartitions ELSE 1
        p2 == IF s.isMultiBoot THEN Max(p1, 2) ELSE p1
        p3 == IF s.hasUEFI /\ ~s.isHybrid THEN Max(p2, 2) ELSE p2
    IN  IF persist THEN p3 + 1 ELSE p3

\* A slip: the multi-partition test is made before the hybrid test.
determineBurnStrategy_MultiFirst(s) ==
    IF s.isMultiBoot \/ s.embeddedPartitions > 1 THEN "MULTIPART"
    ELSE IF s.isHybrid /\ s.embeddedPartitions # 0 THEN "HYBRID_PRESERVE"
    ELSE IF s.hasUEFI \/ s.hasElTorito THEN "SMART_EXTRACT"
    ELSE "RAW_COPY"

\* ISOAnalyzer::determineBurnStrategy
determineBurnStrategy(s) ==
    IF s.isHybrid /\ s.embeddedPartitions # 0 THEN "HYBRID_PRESERVE"
    ELSE IF s.isMultiBoot \/ s.embeddedPartitions > 1 THEN "MULTIPART"
    ELSE IF s.hasUEFI \/ s.hasElTorito THEN "SMART_EXTRACT"
    ELSE "RAW_COPY"

\* IntelligentBurner::burnWithStrategy: the method the switch calls.
burnWithStrategy(strat) ==
    CASE strat = "HYBRID_PRESERVE" -> "burnHybridPreserve"
      [] strat = "SMART_EXTRACT"   -> "burnSmartExtract"
      [] strat = "MULTIPART"       -> "burnMultipart"
      [] strat = "RAW_COPY"        -> "burnRawCopy"
      [] OTHER                     -> "burnRawCopy"

InitAnalyse ==
    /\ image \in [hybrid : BOOLEAN, elTorito : BOOLEAN, uefi : BOOLEAN,
                  embedded : 0..MbrEntries]
    /\ withPersistence \in BOOLEAN
    /\ structure = NoStructure
    /\ strategy = "none"
    /\ requiredPartitions = 0
    /\ burner = "none"
    /\ apc = "start"
    /\ TableIdle
    /\ PathsIdle
    /\ FunctionsIdle
    /\ BurnIdle
    /\ MainIdle

AnalyzeISO ==
    /\ apc = "start"
    /\ structure' = analyzeISO(image)
    /\ apc' = "analysed"
    /\ UNCHANGED <<image, withPersistence, strategy, requiredPartitions, burner>>
    /\ UNCHANGED bvars
    /\ UNCHANGED <<mvars, xvars>>

Plan ==
    /\ apc = "analysed"
    /\ strategy' = determineBurnStrategy(structure)
    /\ requiredPartitions' = calculateRequiredPartitions(structure, withPersistence)
    /\ apc' = "planned"
    /\ UNCHANGED <<image, withPersistence, structure, burner>>
    /\ UNCHANGED bvars
    /\ UNCHANGED <<mvars, xvars>>

BurnWithStrategy ==
    /\ apc = "planned"
    /\ burner' = burnWithStrategy(strategy)
    /\ apc' = "dispatched"
    /\ UNCHANGED <<image, withPersistence, structure, strategy, requiredPartitions>>
    /\ UNCHANGED bvars
    /\ UNCHANGED <<mvars, xvars>>

NextAnalyse == AnalyzeISO \/ Plan \/ BurnWithStrategy

SpecAnalyse == InitAnalyse /\ [][NextAnalyse]_vars

-----------------------------------------------------------------------------
(* C9, C10                                                                 *)

\* The decision table of the strategy, row by row.
DecisionTable(s) ==
    << <<s.isHybrid /\ s.embeddedPartitions > 0,                "HYBRID_PRESERVE">>,
       <<(s.hasUEFI /\ s.hasLegacyBoot) \/ s.embeddedPartitions > 1, "MULTIPART">>,
       <<s.hasUEFI \/ s.hasElTorito,                            "SMART_EXTRACT">>,
       <<TRUE,                                                  "RAW_COPY">> >>

FirstMatchingRow(t) ==
    LET i == CHOOSE k \in 1..Len(t) : t[k][1] /\ \A j \in 1..(k - 1) : ~t[j][1]
    IN  t[i][2]

BurnerOf == [HYBRID_PRESERVE |-> "burnHybridPreserve", MULTIPART |-> "burnMultipart",
             SMART_EXTRACT |-> "burnSmartExtract", RAW_COPY |-> "burnRawCopy"]

\* C9: the strategy chosen for an analysed image is the first matching row of
\* the decision table (HybridPreserve, MultiPart, SmartExtract, RawCopy), and
\* the dispatcher runs that strategy's burner, for every combination of the
\* flags and 0..4 embedded partitions.
C9_StrategyIsFirstMatchingRow ==
    /\ apc \in {"planned", "dispatched"} =>
          strategy = FirstMatchingRow(DecisionTable(analyzeISO(image)))
    /\ apc = "dispatched" =>
          burner = BurnerOf[FirstMatchingRow(DecisionTable(analyzeISO(image)))]

\* A hybrid multi-boot image with several embedded partitions has been
\* dispatched: rows 1 and 2 both match.
C9_Witness ==
    /\ apc = "dispatched"
    /\ image.hybrid /\ image.uefi /\ image.embedded > 1
    /\ burner = "burnHybridPreserve"

\* required_partitions as the specification states it.
RequiredPartitionsFormula(img, persist) ==
    LET multi == img.uefi /\ (img.elTorito \/ img.hybrid)
    IN  Max(IF img.hybrid THEN img.embedded ELSE 1,
            IF multi \/ (img.uefi /\ ~img.hybrid) THEN 2 ELSE 1)
        + (IF persist THEN 1 ELSE 0)

\* C10: required_partitions = max(embedded partitions if Hybrid else 1,
\* 2 if multi-boot or (UEFI and not Hybrid) else 1) + (1 if with persistence).
C10_RequiredPartitions ==
    apc \in {"planned", "dispatched"} =>
        requiredPartitions = RequiredPartitionsFormula(image, withPersistence)

\* A hybrid UEFI image with no embedded partition has been planned with
\* persistence: max(0, 2) + 1.
C10_Witness ==
    /\ apc = "planned"
    /\ image.hybrid /\ image.uefi /\ image.embedded = 0 /\ withPersistence
    /\ requiredPartitions = 3

-----------------------------------------------------------------------------
(* One run of main()                                                       *)

\* Sectors of 512 bytes in one MiB, main's divisor 1024 * 1024 in the unit of
\* getDeviceSize: sizes are kept in sectors, the images' lengths are whole
\* sectors.
SectorsPerMiB == 2048

\* Device paths, one character per element.
DevSdb == <<"/", "d", "e", "v", "/", "s", "d", "b">>
DevSda1 == <<"/", "d", "e", "v", "/", "s", "d", "a", "1">>
DevSdb3 == DevSdb \o <<"3">>
DevNvme == <<"/", "d", "e", "v", "/", "n", "v", "m", "e", "0", "n", "1">>
DevNvmeP1 == DevNvme \o <<"p", "1">>
DevMmc == <<"/", "d", "e", "v", "/", "m", "m", "c", "b", "l", "k", "0">>

Digits == {"0", "1", "2", "3", "4", "5", "6", "7", "8", "9"}

\* a.find(b) == 0: b occurs in a at position 0.
FindAtZero(a, b) ==
    /\ Len(b) <= Len(a)
    /\ SubSeq(a, 1, Len(b)) = b

\* The command lines of the model.
ImageSizes == {700 * SectorsPerMiB, 700 * SectorsPerMiB + 4, 1400 * SectorsPerMiB,
               2048 * SectorsPerMiB, 3072 * SectorsPerMiB}
DeviceSizes == {2048 * SectorsPerMiB, 4096 * SectorsPerMiB}
PersistenceSizes == {256, 1048, 1100, 2048}
Images == {[size |-> n, hybrid |-> h, bootType |-> b] :
              n \in ImageSizes, h \in BOOLEAN, b \in {"SYSLINUX", "GRUB"}}
MountTables == {{}, {DevSdb}, {DevSdb \o <<"1">>},
                {DevSda1, DevSdb \o <<"1">>, DevSdb \o <<"2">>}}

NoArgs == [kind |-> "ok", o |-> DevSdb, hasP |-> FALSE, p |-> 0, f |-> "none",
           t |-> "none", m |-> FALSE, d |-> FALSE, a |-> FALSE, F |-> FALSE]

ArgVectors ==
    {[NoArgs EXCEPT !.kind = k] : k \in {"empty", "help", "bad"}}
    \cup {[NoArgs EXCEPT !.o = dev] : dev \in {DevSdb3, DevNvme, DevNvmeP1, DevMmc}}
    \cup {[NoArgs EXCEPT !.m = m, !.f = f, !.d = d, !.a = a, !.F = F] :
              m \in BOOLEAN, f \in {"none", "fat32"}, d \in BOOLEAN, a \in BOOLEAN,
              F \in BOOLEAN}
    \cup {[NoArgs EXCEPT !.hasP = TRUE, !.p = n, !.f = f, !.t = t, !.d = d, !.a = a,
                          !.F = F] :
              n \in PersistenceSizes, f \in {"none", "exfat"}, t \in {"none", "gpt"},
              d \in BOOLEAN, a \in BOOLEAN, F \in BOOLEAN}

\* A run whose persistence size is over 0.8 of the device and still within
\* what main and setupPersistence ask for: 6600 MiB on a device of 8 GiB.
LargePersistenceRun ==
    [args |-> [NoArgs EXCEPT !.hasP = TRUE, !.p = 6600],
     device |-> 8192 * SectorsPerMiB]

\* FilesystemSupport::parseFSType
parseFSType(name) ==
    CASE name = "ext4" -> "EXT4"
      [] name = "ntfs" -> "NTFS"
      [] name = "exfat" -> "EXFAT"
      [] name = "fat32" -> "FAT32"
      [] name = "fat64" -> "FAT64"
      [] OTHER -> "UNKNOWN"

\* parseArguments, case 't': mbr or gpt in any letter case; the model's
\* command lines spell them in lower case.
parseTableType(name) ==
    CASE name = "mbr" -> "MBR"
      [] name = "gpt" -> "GPT"
      [] OTHER -> "invalid"

\* The Options parseArguments leaves for a command line it accepts.
ParsedOptions(av) ==
    [DefaultOptions EXCEPT
        !.device = av.o,
        !.usePersistence = av.hasP,
        !.persistenceSize = av.p,
        !.fsType = IF av.f = "none" THEN "EXT4" ELSE parseFSType(av.f),
        !.tableType = IF av.t = "none" THEN "MBR" ELSE parseTableType(av.t),
        !.useFastMode = av.m,
        !.dryRun = av.d,
        !.aggressiveInfo = av.a,
        !.forceOperation = av.F]

\* isPartitionDevice: the last character is a decimal digit.
isPartitionDevice(device) ==
    IF device = << >> THEN FALSE ELSE device[Len(device)] \in Digits

\* A slip: the sizes are not compared.
DeviceTooSmall_Unchecked(isoSize, devSize) == FALSE

\* main's test before "Device too small for ISO", on the sizes in bytes.
DeviceTooSmall(isoSize, devSize) == isoSize > devSize

Init ==
    /\ \/ argv \in ArgVectors /\ deviceSize \in DeviceSizes
       \/ argv = LargePersistenceRun.args /\ deviceSize = LargePersistenceRun.device
    /\ opts = DefaultOptions
    /\ iso \in Images
    /\ mtab \in MountTables
    /\ kparts \in {{}, {1}}
    /\ disk = OldDisk
    /\ pc = "start"
    /\ path = "main"
    /\ persistenceSizeMB = 0
    /\ exitCode = -1
    /\ outcome = "running"
    /\ primaryErr = "none"
    /\ log = << >>
    /\ mountedAt = {}
    /\ report = NoReport
    /\ answer = "none"
    /\ nodeAt = 0
    /\ statSeen = {}
    /\ TableIdle
    /\ PathsIdle
    /\ FunctionsIdle
    /\ AnalyseIdle
    /\ BurnIdle

\* return <code> from main, or exit(<code>).
Exit(code, how) ==
    /\ pc' = "done"
    /\ exitCode' = code
    /\ outcome' = how

\* An exception leaves the current function. Thrown inside setupPersistence it
\* is caught by main's catch (const std::exception&), which calls
\* setupFallbackPersistence; anywhere else one of main's outer handlers
\* returns 1.
Throw(e) ==
    IF path = "primary"
    THEN /\ pc' = "fb_unmount"
         /\ path' = "fallback"
         /\ primaryErr' = e
         /\ UNCHANGED <<exitCode, outcome>>
    ELSE /\ Exit(1, e)
         /\ UNCHANGED <<path, primaryErr>>

\* The step goes on to the next one.
Goto(next) ==
    /\ pc' = next
    /\ UNCHANGED <<path, exitCode, outcome, primaryErr>>

ParseArguments ==
    /\ pc = "start"
    /\ CASE argv.kind = "empty" ->
              /\ Exit(1, "usage")
              /\ UNCHANGED opts
         [] argv.kind = "help" ->
              /\ Exit(0, "help")
              /\ UNCHANGED opts
         [] argv.kind = "bad" ->
              /\ Exit(1, "bad_arguments")
              /\ UNCHANGED opts
         [] OTHER ->
              LET o == ParsedOptions(argv)
              IN  IF \/ o.fsType = "UNKNOWN"
                     \/ o.tableType = "invalid"
                     \/ ~o.usePersistence /\ o.fsType # "EXT4"
                  THEN /\ Exit(1, "bad_arguments")
                       /\ opts' = o
                  ELSE /\ pc' = "privileges"
                       /\ opts' = o
                       /\ UNCHANGED <<exitCode, outcome>>
    /\ UNCHANGED <<argv, iso, deviceSize, mtab, kparts, disk, path, persistenceSizeMB,
                   primaryErr, log, mountedAt>>
    /\ UNCHANGED <<report, answer, nodeAt, statSeen>>
    /\ UNCHANGED <<avars, bvars, xvars>>

\* ErrorHandler::checkPrivileges, then the -a branch of main.
CheckPrivileges ==
    /\ pc = "privileges"
    /\ \E root \in BOOLEAN :
         IF ~root THEN Throw("permission")
         ELSE IF opts.aggressiveInfo /\ ~opts.dryRun
              THEN Exit(0, "info_only") /\ UNCHANGED <<path, primaryErr>>
              ELSE Goto("partition_check")
    /\ UNCHANGED <<argv, opts, iso, deviceSize, mtab, kparts, disk, persistenceSizeMB,
                   log, mountedAt>>
    /\ UNCHANGED <<report, answer, nodeAt, statSeen>>
    /\ UNCHANGED <<avars, bvars, xvars>>

\* main: "Validate device is not a partition".
CheckPartitionDevice ==
    /\ pc = "partition_check"
    /\ IF isPartitionDevice(opts.device)
       THEN Exit(1, "is_partition") /\ UNCHANGED <<path, primaryErr>>
       ELSE Goto("validate")
    /\ UNCHANGED <<argv, opts, iso, deviceSize, mtab, kparts, disk, persistenceSizeMB,
                   log, mountedAt>>
    /\ UNCHANGED <<report, answer, nodeAt, statSeen>>
    /\ UNCHANGED <<avars, bvars, xvars>>

\* validateDevice, validateISO, getDeviceSize, getISOSize and the size test.
ValidateAndMeasure ==
    /\ pc = "validate"
    /\ \E r \in {"ok", "invalid_device", "invalid_iso", "size_unreadable"} :
         IF r # "ok" THEN Throw(r)
         ELSE IF DeviceTooSmall(iso.size, deviceSize) THEN Throw("device_too_small")
         ELSE Goto(IF opts.usePersistence THEN "space_check" ELSE "prompt")
    /\ UNCHANGED <<argv, opts, iso, deviceSize, mtab, kparts, disk, persistenceSizeMB,
                   log, mountedAt>>
    /\ UNCHANGED <<report, answer, nodeAt, statSeen>>
    /\ UNCHANGED <<avars, bvars, xvars>>

\* The width of the model's size_t: unsigned differences wrap at this modulus
\* as the code's wrap at 2^64; every size in MiB of the model is far below it.
SizeModulus == 1073741824

\* a - b in size_t.
SizeSub(a, b) == (a - b + SizeModulus) % SizeModulus

\* main's availableForPersistence.
MainAvailable(isoSize, devSize) ==
    SizeSub(SizeSub(devSize \div SectorsPerMiB, isoSize \div SectorsPerMiB), 200)

\* main's message: the maximum is offered when availableForPersistence >= 512.
MainReport(isoSize, devSize) ==
    IF MainAvailable(isoSize, devSize) >= 512
    THEN [said |-> "maximum", maxMB |-> MainAvailable(isoSize, devSize)]
    ELSE [said |-> "too_small", maxMB |-> 0]

\* main's persistence space check: isoSizeMB + persistenceSize + 200 against
\* deviceSizeMB, both sizes in whole MiB, rounded down.
RequiredSpace(isoSize, persistMB) == (isoSize \div SectorsPerMiB) + persistMB + 200

SpaceCheck ==
    /\ pc = "space_check"
    /\ IF RequiredSpace(iso.size, opts.persistenceSize) > deviceSize \div SectorsPerMiB
       THEN Throw("insufficient_space") /\ report' = MainReport(iso.size, deviceSize)
       ELSE Goto("prompt") /\ UNCHANGED report
    /\ UNCHANGED <<argv, opts, iso, deviceSize, mtab, kparts, disk, persistenceSizeMB,
                   log, mountedAt>>
    /\ UNCHANGED <<answer, nodeAt, statSeen>>
    /\ UNCHANGED <<avars, bvars, xvars>>

\* Words typed at "Continue? (yes/no): ": the one that confirms and one that
\* does not.
Answers == {"yes", "y"}

Confirmed_Any(typed, force) == TRUE

\* main: the run goes on after the warning when the word read is exactly
\* "yes" or --force was given.
Confirmed(typed, force) == typed = "yes" \/ force

\* promptPartitionTableType, the dry-run exit and the confirmation.
PromptAndConfirm ==
    /\ pc = "prompt"
    /\ \E t \in {"MBR", "GPT"}, typed \in Answers :
         /\ opts' = [opts EXCEPT !.tableType = t]
         /\ IF opts.dryRun
            THEN Exit(0, "dry_run") /\ UNCHANGED <<path, answer>>
            ELSE /\ answer' = typed
                 /\ IF ~Confirmed(typed, opts.forceOperation)
                    THEN Exit(0, "cancelled") /\ UNCHANGED path
                    ELSE /\ pc' = IF opts.usePersistence THEN "sp_check" ELSE "unmount"
                         /\ path' = IF opts.usePersistence THEN "primary" ELSE "main"
                         /\ UNCHANGED <<exitCode, outcome>>
    /\ UNCHANGED <<argv, iso, deviceSize, mtab, kparts, disk, persistenceSizeMB,
                   primaryErr, log, mountedAt>>
    /\ UNCHANGED <<report, nodeAt, statSeen>>
    /\ UNCHANGED <<avars, bvars, xvars>>

\* The mtab entries a shell expands "umount <device>*" to: the device and
\* its partitions.
GlobEntries(m, device) == {e \in m : FindAtZero(e, device)}

\* DeviceHandler::isDeviceMounted: device.find(entry->mnt_fsname) == 0 for
\* some entry of /etc/mtab.
isDeviceMounted(m, device) == \E e \in m : FindAtZero(device, e)

\* DeviceHandler::unmountDevice: nothing when isDeviceMounted is false; else
\* umount of every globbed entry, each of which may stay busy, and a lazy
\* umount of them all when isDeviceMounted is still true.
unmountDevice(m, device) ==
    IF ~isDeviceMounted(m, device) THEN {m}
    ELSE {IF isDeviceMounted(m1, device) THEN m1 \ GlobEntries(m1, device) ELSE m1 :
             m1 \in {m \ gone : gone \in SUBSET GlobEntries(m, device)}}

\* The step after a step that several callers share.
After ==
    [unmount |-> "wipe", wipe |-> "burn", burn |-> "boot", boot |-> "done",
     sp_unmount |-> "sp_wipe", sp_wipe |-> "sp_table", sp_burn |-> "sp_burnboot",
     sp_burnboot |-> "sp_persist", sp_boot |-> "done",
     fb_unmount |-> "fb_burn", fb_burn |-> "fb_boot", fb_boot |-> "fb_file"]

\* The record of a step on the device: its name in log, and in mountedAt when
\* the mount table still holds the device or one of its partitions.
Record(step) ==
    /\ log' = Append(log, step)
    /\ mountedAt' = IF GlobEntries(mtab, opts.device) # {}
                    THEN mountedAt \cup {step} ELSE mountedAt

UnmountDevice ==
    /\ pc \in {"unmount", "sp_unmount", "fb_unmount"}
    /\ mtab' \in unmountDevice(mtab, opts.device)
    /\ log' = Append(log, "unmount")
    /\ Goto(After[pc])
    /\ UNCHANGED <<argv, opts, iso, deviceSize, kparts, disk, persistenceSizeMB, mountedAt>>
    /\ UNCHANGED <<report, answer, nodeAt, statSeen>>
    /\ UNCHANGED <<avars, bvars, xvars>>

WipedDisk == [boot |-> "zero", table |-> "zero", entries |-> 0, body |-> "wiped",
              p1 |-> "none", p2 |-> "none"]

\* DeviceHandler::wipeDevice: zeroes the first and the last 10 MiB and asks
\* the kernel to re-read the partition table.
WipeDevice ==
    /\ pc \in {"wipe", "sp_wipe"}
    /\ \E r \in {"ok", "wipe_open_failed", "wipe_failed"} :
         CASE r = "ok" ->
                /\ disk' = WipedDisk
                /\ kparts' \in {kparts, {}}
                /\ Goto(After[pc])
           [] r = "wipe_open_failed" ->
                /\ UNCHANGED <<disk, kparts>>
                /\ Throw(r)
           [] r = "wipe_failed" ->
                /\ disk' \in {disk, WipedDisk}
                /\ UNCHANGED kparts
                /\ Throw(r)
    /\ Record("wipe")
    /\ UNCHANGED <<argv, opts, iso, deviceSize, mtab, persistenceSizeMB>>
    /\ UNCHANGED <<report, answer, nodeAt, statSeen>>
    /\ UNCHANGED <<avars, bvars, xvars>>

\* The device after the image has been streamed to it from offset 0.
ImagedDisk == [boot |-> "image", table |-> "image",
               entries |-> IF iso.hybrid THEN 1 ELSE 0, body |-> "image",
               p1 |-> "none", p2 |-> "none"]

\* What the stream leaves when it stops early.
PartialDisks(d) ==
    IF pc = "sp_burn" THEN {d, [d EXCEPT !.p1 = "partial"]}
    ELSE {d, [ImagedDisk EXCEPT !.body = "partial"]}

\* ISOBurner::burnISO up to the call of the bootloader: validateISO and
\* burnRawMode or burnFastMode, to the device or, in setupPersistence, to its
\* first partition. A read error ends the copy early and still returns true; a
\* write error throws after a second free() of the buffer.
BurnImage ==
    /\ pc \in {"burn", "sp_burn", "fb_burn"}
    /\ \E r \in {"ok", "read_error", "burn_open_failed", "write_failed", "abort"} :
         CASE r = "ok" ->
                /\ disk' = IF pc = "sp_burn" THEN [disk EXCEPT !.p1 = "image"]
                           ELSE ImagedDisk
                /\ kparts' \in IF pc = "sp_burn" THEN {kparts}
                               ELSE {kparts, IF iso.hybrid THEN {1} ELSE {}}
                /\ Goto(After[pc])
           [] r = "read_error" ->
                /\ disk' \in PartialDisks(disk)
                /\ UNCHANGED kparts
                /\ Goto(After[pc])
           [] r = "burn_open_failed" ->
                /\ UNCHANGED <<disk, kparts>>
                /\ Throw(r)
           [] r = "write_failed" ->
                /\ disk' \in PartialDisks(disk)
                /\ UNCHANGED kparts
                /\ Throw(r)
           [] r = "abort" ->
                /\ disk' \in PartialDisks(disk)
                /\ UNCHANGED <<kparts, path, primaryErr>>
                /\ Exit(134, "abort")
    /\ Record("write")
    /\ UNCHANGED <<argv, opts, iso, deviceSize, mtab, persistenceSizeMB>>
    /\ UNCHANGED <<report, answer, nodeAt, statSeen>>
    /\ UNCHANGED <<avars, bvars, xvars>>

\* Bootloader::installBootloader on target `whole` (the device) or on its
\* first partition: mounts <target>1 as vfat and gives up when that fails;
\* writes the configuration file into the mounted partition and, for
\* SYSLINUX, 440 bytes of boot code at offset 0 of the target.
Bootloaded(d, whole, mbrWritten) ==
    IF whole
    THEN [d EXCEPT !.boot = IF iso.bootType = "SYSLINUX" /\ mbrWritten
                            THEN "syslinux" ELSE @,
                   !.body = IF @ = "image" THEN "image_modified" ELSE @,
                   !.p1 = IF @ = "fat32" THEN "fat32_cfg" ELSE @]
    ELSE d

\* mount(<target>1, vfat) can succeed: the node exists and may hold a FAT
\* filesystem (one made by the run, or the first partition of a hybrid image).
CanMountFirst(whole) ==
    /\ whole
    /\ 1 \in kparts
    /\ \/ disk.p1 = "fat32"
       \/ disk.body = "image" /\ iso.hybrid

InstallBootloader ==
    /\ pc \in {"boot", "sp_burnboot", "sp_boot", "fb_boot"}
    /\ \E mounted \in BOOLEAN, mbrWritten \in BOOLEAN :
         /\ mounted => CanMountFirst(pc # "sp_burnboot")
         /\ disk' = IF mounted THEN Bootloaded(disk, pc # "sp_burnboot", mbrWritten)
                    ELSE disk
    /\ IF After[pc] = "done"
       THEN Exit(0, "success") /\ UNCHANGED <<path, primaryErr>>
       ELSE Goto(After[pc])
    /\ Record("bootloader")
    /\ UNCHANGED <<argv, opts, iso, deviceSize, mtab, kparts, persistenceSizeMB>>
    /\ UNCHANGED <<report, answer, nodeAt, statSeen>>
    /\ UNCHANGED <<avars, bvars, xvars>>

\* setupPersistence's minimum persistence size, in MiB.
MinPersistenceMB == 512
\* setupPersistence's overheadMB.
OverheadMB == 100
\* What setupPersistence adds to the image's size, in MiB.
IsoPaddingMB == 200

\* setupPersistence's totalRequired: the image's whole MiB plus 200, the
\* persistence size and the overhead.
TotalRequired(isoSize, persistMB) ==
    ((isoSize \div SectorsPerMiB) + IsoPaddingMB) + persistMB + OverheadMB

\* setupPersistence's availableForPersistence.
SetupAvailable(isoSize, devSize) ==
    SizeSub(SizeSub(devSize \div SectorsPerMiB,
                    (isoSize \div SectorsPerMiB) + IsoPaddingMB), OverheadMB)

\* setupPersistence's message: the maximum is offered when
\* availableForPersistence > 512.
SetupReport(isoSize, devSize) ==
    IF SetupAvailable(isoSize, devSize) > MinPersistenceMB
    THEN [said |-> "maximum", maxMB |-> SetupAvailable(isoSize, devSize)]
    ELSE [said |-> "too_small", maxMB |-> 0]

\* setupPersistence before it touches the device: the space check, and the
\* raise of a persistence size under 512 MiB.
SetupPersistenceCheck ==
    /\ pc = "sp_check"
    /\ LET deviceSizeMB == deviceSize \div SectorsPerMiB
           isoSizeMB == (iso.size \div SectorsPerMiB) + IsoPaddingMB
           freeSpaceAfterISO == deviceSizeMB - isoSizeMB - OverheadMB
       IN  IF TotalRequired(iso.size, opts.persistenceSize) > deviceSizeMB
           THEN /\ Throw("insufficient_space")
                /\ report' = SetupReport(iso.size, deviceSize)
                /\ UNCHANGED persistenceSizeMB
           ELSE IF opts.persistenceSize < MinPersistenceMB
           THEN IF MinPersistenceMB > freeSpaceAfterISO
                THEN /\ Throw("insufficient_space")
                     /\ report' = [said |-> "too_small", maxMB |-> 0]
                     /\ UNCHANGED persistenceSizeMB
                ELSE /\ Goto("sp_unmount")
                     /\ persistenceSizeMB' = MinPersistenceMB
                     /\ UNCHANGED report
           ELSE /\ Goto("sp_unmount")
                /\ persistenceSizeMB' = opts.persistenceSize
                /\ UNCHANGED report
    /\ UNCHANGED <<argv, opts, iso, deviceSize, mtab, kparts, disk, log, mountedAt>>
    /\ UNCHANGED <<answer, nodeAt, statSeen>>
    /\ UNCHANGED <<avars, bvars, xvars>>

\* PartitionTable::initialize and createMBR or createGPT: an empty MBR with
\* the boot code stub, or a protective MBR (one entry) and the GPT header.
CreateTable ==
    /\ pc = "sp_table"
    /\ \E r \in {"ok", "table_open_failed", "table_write_failed"} :
         IF r = "ok"
         THEN /\ disk' = IF opts.tableType = "MBR"
                         THEN [disk EXCEPT !.boot = "stub", !.table = "mbr", !.entries = 0]
                         ELSE [disk EXCEPT !.boot = "zero", !.table = "gpt", !.entries = 1]
              /\ Goto("sp_add1")
         ELSE /\ UNCHANGED disk
              /\ Throw(r)
    /\ Record("table")
    /\ UNCHANGED <<argv, opts, iso, deviceSize, mtab, kparts, persistenceSizeMB>>
    /\ UNCHANGED <<report, answer, nodeAt, statSeen>>
    /\ UNCHANGED <<avars, bvars, xvars>>

\* One of setupPersistence's two addMBRPartition calls: the entry goes to the
\* first free slot of the four.
AddPartition ==
    /\ pc \in {"sp_add1", "sp_add2"}
    /\ \E r \in {"ok", "table_io_failed"} :
         IF r = "ok" /\ disk.entries < MbrEntries
         THEN /\ disk' = [disk EXCEPT !.entries = @ + 1,
                                      !.p1 = IF pc = "sp_add1" THEN "unformatted" ELSE @,
                                      !.p2 = IF pc = "sp_add2" THEN "unformatted" ELSE @]
              /\ Goto(IF pc = "sp_add1" THEN "sp_add2" ELSE "sp_commit")
         ELSE /\ UNCHANGED disk
              /\ Throw(IF r = "ok" THEN "table_full" ELSE r)
    /\ Record("table")
    /\ UNCHANGED <<argv, opts, iso, deviceSize, mtab, kparts, persistenceSizeMB>>
    /\ UNCHANGED <<report, answer, nodeAt, statSeen>>
    /\ UNCHANGED <<avars, bvars, xvars>>

\* The stat() calls setupPersistence makes on the first partition's path: one
\* after the settle time and one after another partprobe.
StatAttempts == 2
\* The retries of DeviceHandler::createPartition's wait loop, one second each.
PollRetries == 10

\* The check, counted from 1, at which the kernel has made the partition
\* nodes: at the first, at the one retry setupPersistence makes, at a later
\* retry of a ten-retry poll, or at none of them.
NodeArrivals == {1, StatAttempts, StatAttempts + 1, PollRetries + 2}

\* commit, BLKRRPART and partprobe, then the check that the first partition's
\* node exists, with one more partprobe and one more check when it does not.
\* The second partition's path is never checked.
CommitAndVerify ==
    /\ pc = "sp_commit"
    /\ \E k \in NodeArrivals :
         /\ nodeAt' = k
         /\ IF k <= StatAttempts
            THEN /\ kparts' = {1, 2}
                 /\ statSeen' = {1}
                 /\ Goto("sp_format")
            ELSE /\ kparts' = {}
                 /\ UNCHANGED statSeen
                 /\ Throw("partition_missing")
    /\ UNCHANGED <<argv, opts, iso, deviceSize, mtab, disk, persistenceSizeMB, log,
                   mountedAt>>
    /\ UNCHANGED <<report, answer>>
    /\ UNCHANGED <<avars, bvars, xvars>>

\* createFilesystem(part1, "fat32"): its result is not looked at.
FormatFirst ==
    /\ pc = "sp_format"
    /\ \E made \in BOOLEAN :
         disk' = IF made THEN [disk EXCEPT !.p1 = "fat32"] ELSE disk
    /\ Goto("sp_burn")
    /\ Record("format")
    /\ UNCHANGED <<argv, opts, iso, deviceSize, mtab, kparts, persistenceSizeMB>>
    /\ UNCHANGED <<report, answer, nodeAt, statSeen>>
    /\ UNCHANGED <<avars, bvars, xvars>>

\* FilesystemCreator::createFilesystem knows fat32, ext4 and ntfs.
CreatorKnows(fs) == fs \in {"FAT32", "EXT4", "NTFS"}

\* createPersistencePartition: refuses a size over 0.8 of the device, then
\* formatPartition on <device>2.
CreatePersistencePartition ==
    /\ pc = "sp_persist"
    /\ IF persistenceSizeMB * 10 > (deviceSize \div SectorsPerMiB) * 8
       THEN Throw("persistence_too_large") /\ UNCHANGED disk
       ELSE IF ~CreatorKnows(opts.fsType)
       THEN Throw("unsupported_filesystem") /\ UNCHANGED disk
       ELSE /\ \E made \in BOOLEAN :
                 disk' = IF made THEN [disk EXCEPT !.p2 = opts.fsType] ELSE disk
            /\ Goto("sp_boot")
    /\ Record("format")
    /\ UNCHANGED <<argv, opts, iso, deviceSize, mtab, kparts, persistenceSizeMB>>
    /\ UNCHANGED <<report, answer, nodeAt, statSeen>>
    /\ UNCHANGED <<avars, bvars, xvars>>

\* setupFallbackPersistence after burnISO: mount <device>1; when that fails
\* return false, which main does not look at; else make the persistence file.
FallbackFile ==
    /\ pc = "fb_file"
    /\ \E r \in {"not_mounted", "ok", "fallback_file_failed"} :
         CASE r = "not_mounted" ->
                /\ UNCHANGED disk
                /\ Exit(0, "success")
                /\ UNCHANGED <<path, primaryErr>>
           [] r = "ok" ->
                /\ 1 \in kparts
                /\ disk' = [disk EXCEPT !.body = "image_file"]
                /\ Exit(0, "success")
                /\ UNCHANGED <<path, primaryErr>>
           [] r = "fallback_file_failed" ->
                /\ 1 \in kparts
                /\ UNCHANGED disk
                /\ Throw(r)
    /\ UNCHANGED <<argv, opts, iso, deviceSize, mtab, kparts, persistenceSizeMB, log,
                   mountedAt>>
    /\ UNCHANGED <<report, answer, nodeAt, statSeen>>
    /\ UNCHANGED <<avars, bvars, xvars>>

Next ==
    \/ ParseArguments
    \/ CheckPrivileges
    \/ CheckPartitionDevice
    \/ ValidateAndMeasure
    \/ SpaceCheck
    \/ PromptAndConfirm
    \/ UnmountDevice
    \/ WipeDevice
    \/ BurnImage
    \/ InstallBootloader
    \/ SetupPersistenceCheck
    \/ CreateTable
    \/ AddPartition
    \/ CommitAndVerify
    \/ FormatFirst
    \/ CreatePersistencePartition
    \/ FallbackFile

Spec == Init /\ [][Next]_vars

-----------------------------------------------------------------------------
(* PartitionTable: sector 0 of the device                                  *)

\* enum class PartitionType, as the byte stored, and the type byte of the
\* protective entry.
EMPTY == 0
NTFS == 7
FAT32_LBA == 12
LINUX_NATIVE == 131
GPT_PROTECTIVE == 238
\* MBR::signature, 0xAA55.
MbrSignature == 43605
\* MBRPartitionEntry::status of a bootable entry, 0x80.
BootFlag == 128
\* setupPersistence's startSector.
StartSector == 2048

\* 2^32 sectors in MiB: a count of MiB turned into sectors and stored in a
\* uint32_t keeps its value modulo this many MiB.
MiBModulus == 2097152

\* uint32_t sectors = (mb * 1024 * 1024) / 512: the 64-bit quotient cut to 32
\* bits, which is (mb mod 2^21) * 2048 as mb * 2048 is a multiple of 2048.
ToSectors32(mb) == (mb % MiBModulus) * SectorsPerMiB

\* What std::uniform_int_distribution<uint32_t> can return, among others.
DiskSignatures == {0, 1, 2147483647}

\* PartitionTable::createMBR: sector 0 with the boot code area set to 0x90
\* and the eight-byte stub at its start, a random disk signature, four empty
\* entries and the trailer.
createMBR(sig) ==
    [bootCode |-> [stub |-> <<250, 49, 192, 142, 208, 188, 0, 124>>, fill |-> 144],
     diskSignature |-> sig, reserved |-> 0,
     partitions |-> [i \in 1..4 |-> EmptyEntry], signature |-> MbrSignature]

\* PartitionTable::createGPT, sector 0: the protective MBR, for a device of
\* fewer than 2^32 sectors.
createGPT(deviceMB) ==
    [bootCode |-> ZeroBootCode, diskSignature |-> 0, reserved |-> 0,
     partitions |-> [i \in 1..4 |->
                       IF i = 1
                       THEN [status |-> 0, partitionType |-> GPT_PROTECTIVE,
                             firstLBA |-> 1,
                             sectorCount |-> deviceMB * SectorsPerMiB - 1]
                       ELSE EmptyEntry],
     signature |-> MbrSignature]

\* A slip: the last free entry instead of the first.
FreeSlot_Last(m) ==
    IF \E i \in 1..4 : m.partitions[i].partitionType = EMPTY
    THEN CHOOSE i \in 1..4 :
            /\ m.partitions[i].partitionType = EMPTY
            /\ \A j \in (i + 1)..4 : m.partitions[j].partitionType # EMPTY
    ELSE 0

\* addMBRPartition's search: the first of the four entries whose type byte
\* is 0x00, counted from 1; 0 when there is none (partIndex == -1).
FreeSlot(m) ==
    IF \E i \in 1..4 : m.partitions[i].partitionType = EMPTY
    THEN CHOOSE i \in 1..4 :
            /\ m.partitions[i].partitionType = EMPTY
            /\ \A j \in 1..(i - 1) : m.partitions[j].partitionType # EMPTY
    ELSE 0

\* The sector addMBRPartition writes back when it has found a free entry.
addMBRPartition(m, startLBA, sectorCount, type, bootable) ==
    LET partIndex == FreeSlot(m)
    IN  IF partIndex = 0 THEN m
        ELSE [m EXCEPT !.partitions[partIndex] =
                          [status |-> IF bootable THEN BootFlag ELSE 0,
                           partitionType |-> type,
                           firstLBA |-> startLBA,
                           sectorCount |-> sectorCount]]

\* How a call of addMBRPartition can go: the sector is read and written, the
\* read fails, or the write fails.
AddOutcomes == {"ok", "read_failed", "write_failed"}

\* One call of addMBRPartition on the device: a failed read and a full table
\* throw before anything is written; a failed write throws with the sector
\* written or not.
AddCall(startLBA, sectorCount, type, bootable, io) ==
    LET result == IF io = "read_failed" THEN io
                  ELSE IF FreeSlot(mbr) = 0 THEN "table_full"
                  ELSE io
        added == addMBRPartition(mbr, startLBA, sectorCount, type, bootable)
    IN  /\ tbefore' = mbr
        /\ tlast' = [op |-> "add", startLBA |-> startLBA, sectorCount |-> sectorCount,
                     type |-> type, bootable |-> bootable, result |-> result]
        /\ mbr' \in CASE result = "ok" -> {added}
                      [] result = "write_failed" -> {mbr, added}
                      [] OTHER -> {mbr}

\* Device sizes in MiB: 4 GiB, and 4 TiB.
TableDevicesMB == {4096, 4194304}

\* The persistence runs of the model: image size (whole MiB), persistence
\* size as it reaches the partition step, filesystem and table type.
TableRuns ==
    [isoMB : {700, 1400}, persistMB : {512, 1048, 2097664},
     fsType : {"EXT4", "FAT32"}, tableType : {"MBR", "GPT"}]

\* setupPersistence's space check let the run through, and the device's
\* sector count fits the protective entry when the table is a GPT.
RunFits(r, deviceMB) ==
    /\ r.isoMB + IsoPaddingMB + r.persistMB + OverheadMB <= deviceMB
    /\ r.tableType = "GPT" => deviceMB < MiBModulus

\* Sector 0 as a device may hold it before a call: each entry empty or an
\* NTFS partition.
OnDiskEntry(i) == [status |-> 0, partitionType |-> NTFS, firstLBA |-> 63 + i,
                   sectorCount |-> 2048]

OnDiskSectors ==
    {[bootCode |-> [stub |-> <<235, 99, 144, 16, 142, 208, 188, 0>>, fill |-> 1],
      diskSignature |-> 77, reserved |-> 0,
      partitions |-> [i \in 1..4 |-> IF i \in used THEN OnDiskEntry(i) ELSE EmptyEntry],
      signature |-> MbrSignature] : used \in SUBSET (1..4)}

\* The arguments of the calls made on their own.
CallArguments ==
    {[startLBA |-> 2048, sectorCount |-> 2048, type |-> FAT32_LBA, bootable |-> TRUE],
     [startLBA |-> 4096, sectorCount |-> 1048576, type |-> LINUX_NATIVE,
      bootable |-> FALSE],
     [startLBA |-> 4096, sectorCount |-> 2048, type |-> EMPTY, bootable |-> FALSE]}

InitTable ==
    /\ FunctionsIdle
    /\ AnalyseIdle
    /\ BurnIdle
    /\ MainIdle
    /\ PathsIdle
    /\ tdeviceMB \in TableDevicesMB
    /\ \/ /\ tpc = "t_create"
          /\ trun \in {r \in TableRuns : RunFits(r, tdeviceMB)}
          /\ mbr = ZeroSector
       \/ /\ tpc = "calls"
          /\ tdeviceMB < MiBModulus
          /\ trun = NoRun
          /\ mbr \in OnDiskSectors
    /\ tlast = NoCall
    /\ tbefore = mbr

\* setupPersistence: ptable.initialize(), then createMBR or createGPT.
SetupCreateTable ==
    /\ tpc = "t_create"
    /\ \E io \in {"ok", "failed"}, sig \in DiskSignatures :
         IF io = "ok"
         THEN /\ mbr' = IF trun.tableType = "MBR" THEN createMBR(sig)
                        ELSE createGPT(tdeviceMB)
              /\ tpc' = "t_add1"
         ELSE /\ UNCHANGED mbr
              /\ tpc' = "t_failed"
    /\ UNCHANGED <<tdeviceMB, trun, tlast, tbefore>>
    /\ UNCHANGED <<avars, bvars, mvars, pvars, yvars>>

\* setupPersistence: the image's partition, from sector 2048.
SetupAddFirst ==
    /\ tpc = "t_add1"
    /\ \E io \in AddOutcomes :
         AddCall(StartSector, ToSectors32(trun.isoMB + IsoPaddingMB), FAT32_LBA, TRUE, io)
    /\ tpc' = IF tlast'.result = "ok" THEN "t_add2" ELSE "t_failed"
    /\ UNCHANGED <<tdeviceMB, trun>>
    /\ UNCHANGED <<avars, bvars, mvars, pvars, yvars>>

\* setupPersistence: the persistence partition, behind the image's.
SetupAddSecond ==
    /\ tpc = "t_add2"
    /\ \E io \in AddOutcomes :
         AddCall(StartSector + ToSectors32(trun.isoMB + IsoPaddingMB),
                 ToSectors32(trun.persistMB),
                 IF trun.fsType = "EXT4" THEN LINUX_NATIVE ELSE FAT32_LBA, FALSE, io)
    /\ tpc' = IF tlast'.result = "ok" THEN "t_commit" ELSE "t_failed"
    /\ UNCHANGED <<tdeviceMB, trun>>
    /\ UNCHANGED <<avars, bvars, mvars, pvars, yvars>>

\* PartitionTable::commit: fsync and BLKRRPART; always true.
SetupCommit ==
    /\ tpc = "t_commit"
    /\ tpc' = "t_done"
    /\ UNCHANGED <<tdeviceMB, trun, mbr, tlast, tbefore>>
    /\ UNCHANGED <<avars, bvars, mvars, pvars, yvars>>

\* createMBR called on its own.
CallCreateMBR ==
    /\ tpc = "calls"
    /\ \E sig \in DiskSignatures : mbr' = createMBR(sig)
    /\ tbefore' = mbr
    /\ tlast' = [NoCall EXCEPT !.op = "createMBR", !.result = "ok"]
    /\ UNCHANGED <<tdeviceMB, trun, tpc>>
    /\ UNCHANGED <<avars, bvars, mvars, pvars, yvars>>

\* createGPT called on its own.
CallCreateGPT ==
    /\ tpc = "calls"
    /\ mbr' = createGPT(tdeviceMB)
    /\ tbefore' = mbr
    /\ tlast' = [NoCall EXCEPT !.op = "createGPT", !.result = "ok"]
    /\ UNCHANGED <<tdeviceMB, trun, tpc>>
    /\ UNCHANGED <<avars, bvars, mvars, pvars, yvars>>

\* addMBRPartition called on its own.
CallAddMBRPartition ==
    /\ tpc = "calls"
    /\ \E a \in CallArguments, io \in AddOutcomes :
         AddCall(a.startLBA, a.sectorCount, a.type, a.bootable, io)
    /\ UNCHANGED <<tdeviceMB, trun, tpc>>
    /\ UNCHANGED <<avars, bvars, mvars, pvars, yvars>>

NextTable ==
    \/ SetupCreateTable
    \/ SetupAddFirst
    \/ SetupAddSecond
    \/ SetupCommit
    \/ CallCreateMBR
    \/ CallCreateGPT
    \/ CallAddMBRPartition

SpecTable == InitTable /\ [][NextTable]_vars

-----------------------------------------------------------------------------
(* The partition paths the persistence pipeline derives                    *)

Dev == <<"/", "d", "e", "v", "/">>

\* Whole disks, partitions, and symbolic links to NVMe and eMMC disks whose
\* names end in a letter, as the links udev makes under /dev/disk/by-id can.
PathDevices ==
    {DevSdb, DevSda1, DevNvme, DevMmc,
     Dev \o <<"s", "d", "c">>,
     Dev \o <<"s", "d", "d">>,
     Dev \o <<"v", "d", "b">>,
     Dev \o <<"x", "v", "d", "b">>,
     Dev \o <<"h", "d", "b">>,
     Dev \o <<"n", "v", "m", "e", "-", "a">>,
     Dev \o <<"n", "v", "m", "e", "-", "b">>,
     Dev \o <<"m", "m", "c", "b", "l", "k", "-", "a">>}

\* a.find(b) != std::string::npos
Contains(a, b) ==
    \E i \in 1..(Len(a) - Len(b) + 1) : SubSeq(a, i, i + Len(b) - 1) = b

\* setupPersistence's part1 and part2: <device>pN when the device path
\* contains nvme or mmcblk, else <device>N.
PartitionPath(device, n) ==
    IF \/ Contains(device, <<"n", "v", "m", "e">>)
       \/ Contains(device, <<"m", "m", "c", "b", "l", "k">>)
    THEN device \o <<"p", n>>
    ELSE device \o <<n>>

\* createPersistencePartition's persistDevice: <device>2 in both branches.
persistDevice(device) == device \o <<"2">>

\* installSyslinux's and installGrub's part1: <device>1 in both branches.
BootloaderPart1(device) == device \o <<"1">>

\* setupFallbackPersistence's "mount <device>1".
FallbackPart1(device) == device \o <<"1">>

InitPaths ==
    /\ FunctionsIdle
    /\ AnalyseIdle
    /\ BurnIdle
    /\ MainIdle
    /\ TableIdle
    /\ pdevice \in PathDevices
    /\ ppc = "partition_check"
    /\ derived = NoPaths

\* main: a device path ending in a digit is refused; else the run goes on,
\* with persistence or without.
PathsCheckDevice ==
    /\ ppc = "partition_check"
    /\ IF isPartitionDevice(pdevice)
       THEN ppc' = "rejected"
       ELSE ppc' \in {"names", "plain"}
    /\ UNCHANGED <<pdevice, derived>>
    /\ UNCHANGED <<avars, bvars, mvars, tvars, yvars>>

\* main without -p: burnISO(device), whose bootloader step mounts <device>1.
PathsPlainBurn ==
    /\ ppc = "plain"
    /\ derived' = [derived EXCEPT !.boot1 = BootloaderPart1(pdevice)]
    /\ ppc' = "done"
    /\ UNCHANGED pdevice
    /\ UNCHANGED <<avars, bvars, mvars, tvars, yvars>>

\* setupPersistence: names part1 and part2 and checks part1 with stat().
PathsNameAndCheck ==
    /\ ppc = "names"
    /\ derived' = [derived EXCEPT !.checked1 = PartitionPath(pdevice, "1")]
    /\ ppc' \in {"format1", "fallback"}
    /\ UNCHANGED pdevice
    /\ UNCHANGED <<avars, bvars, mvars, tvars, yvars>>

\* setupPersistence: createFilesystem(part1, "fat32").
PathsFormatFirst ==
    /\ ppc = "format1"
    /\ derived' = [derived EXCEPT !.formatted1 = PartitionPath(pdevice, "1")]
    /\ ppc' = "burn"
    /\ UNCHANGED pdevice
    /\ UNCHANGED <<avars, bvars, mvars, tvars, yvars>>

\* setupPersistence: burnISO(isoPath, part1, RAW), which writes part1 and
\* then installs the bootloader with part1 as its device.
PathsBurnFirst ==
    /\ ppc = "burn"
    /\ \E r \in {"ok", "write_failed"} :
         IF r = "ok"
         THEN /\ derived' = [derived EXCEPT
                               !.written1 = PartitionPath(pdevice, "1"),
                               !.burnBoot1 = BootloaderPart1(PartitionPath(pdevice, "1"))]
              /\ ppc' = "persist"
         ELSE /\ derived' = [derived EXCEPT !.written1 = PartitionPath(pdevice, "1")]
              /\ ppc' = "fallback"
    /\ UNCHANGED pdevice
    /\ UNCHANGED <<avars, bvars, mvars, tvars, yvars>>

\* setupPersistence: createPersistencePartition(device, ...), which formats
\* its own persistDevice or throws before.
PathsPersist ==
    /\ ppc = "persist"
    /\ \E r \in {"ok", "persistence_too_large"} :
         IF r = "ok"
         THEN /\ derived' = [derived EXCEPT !.formatted2 = persistDevice(pdevice)]
              /\ ppc' = "boot"
         ELSE /\ UNCHANGED derived
              /\ ppc' = "fallback"
    /\ UNCHANGED pdevice
    /\ UNCHANGED <<avars, bvars, mvars, tvars, yvars>>

\* setupPersistence: installBootloader(device, isoPath).
PathsBootloader ==
    /\ ppc = "boot"
    /\ derived' = [derived EXCEPT !.boot1 = BootloaderPart1(pdevice)]
    /\ ppc' = "done"
    /\ UNCHANGED pdevice
    /\ UNCHANGED <<avars, bvars, mvars, tvars, yvars>>

\* setupFallbackPersistence: burnISO(device), whose bootloader step mounts
\* <device>1, then its own mount of <device>1.
PathsFallback ==
    /\ ppc = "fallback"
    /\ derived' = [derived EXCEPT !.boot1 = BootloaderPart1(pdevice),
                                  !.fallback1 = FallbackPart1(pdevice)]
    /\ ppc' = "done"
    /\ UNCHANGED pdevice
    /\ UNCHANGED <<avars, bvars, mvars, tvars, yvars>>

NextPaths ==
    \/ PathsCheckDevice
    \/ PathsPlainBurn
    \/ PathsNameAndCheck
    \/ PathsFormatFirst
    \/ PathsBurnFirst
    \/ PathsPersist
    \/ PathsBootloader
    \/ PathsFallback

SpecPaths == InitPaths /\ [][NextPaths]_vars

-----------------------------------------------------------------------------
(* PartitionTable::calculateCHS                                            *)

\* calculateCHS's sectorsPerTrack and heads, and its cylinder limit.
SectorsPerTrack == 63
Heads == 255
MaxCylinder == 1023

\* The three bytes calculateCHS writes for an LBA: the head, the two high
\* bits of the cylinder over the sector, the low byte of the cylinder. Only
\* the cylinder is limited; head and sector are those of the LBA itself.
calculateCHS(l) ==
    LET cylinder == l \div (Heads * SectorsPerTrack)
        temp == l % (Heads * SectorsPerTrack)
        head == temp \div SectorsPerTrack
        sector == (temp % SectorsPerTrack) + 1
        clamped == IF cylinder > MaxCylinder THEN MaxCylinder ELSE cylinder
    IN  <<head % 256,
          (((clamped \div 4) \div 64) % 4) * 64 + (sector % 64),
          clamped % 256>>

\* LBAs of the model: the first tracks, the ends of the first cylinder, the
\* last LBA the three bytes can hold and those after it, and larger ones.
Lbas ==
    (0..70) \cup (16060..16070) \cup (16450550..16450570)
        \cup {16466624, 16466625, 33554432, 1073741824, 2147483647}

InitChs ==
    /\ CoreIdle
    /\ IdleBut("chs")
    /\ lba \in Lbas
    /\ chs = <<0, 0, 0>>
    /\ cpc = "call"

CalculateCHS ==
    /\ cpc = "call"
    /\ chs' = calculateCHS(lba)
    /\ cpc' = "done"
    /\ UNCHANGED lba
    /\ UNCHANGED <<core, fvars, wvars, evars>>

NextChs == CalculateCHS

SpecChs == InitChs /\ [][NextChs]_vars

-----------------------------------------------------------------------------
(* FAT32Creator::create                                                    *)

\* FAT32BootSector::reservedSectorCount, sectorsPerCluster and numFATs.
ReservedSectorCount == 32
SectorsPerCluster == 8
NumFATs == 2

\* writeBootSector's FATSize32 for a device of n sectors.
FATSize32(n) ==
    LET tmpVal1 == n - ReservedSectorCount
        tmpVal2 == 256 * SectorsPerCluster + NumFATs
    IN  (tmpVal1 + tmpVal2 - 1) \div tmpVal2

\* fatSectors as writeFATs and initializeRootDirectory compute it.
fatSectors(n) == ((n - 32) \div 256) + 1

\* The first three entries of a FAT as writeFATs sets them: 0x0FFFFFF8,
\* 0x0FFFFFFF, 0x0FFFFFFF.
FatHead == <<268435448, 268435455, 268435455>>

\* Sizes of the partition formatted, in sectors, from 32 sectors up.
FatDeviceSectors ==
    {32, 33, 288, 2082, 2083, 65536, 204800, 1048576, 1843200, 2097152,
     4194304, 8388608, 16777216, 67108864}

InitFat ==
    /\ CoreIdle
    /\ IdleBut("fat")
    /\ fsectors \in FatDeviceSectors
    /\ fatfs = NoFat
    /\ fpc = "boot"

\* writeBootSector: the boot sector at sector 0 and its copy at sector 6.
WriteBootSector ==
    /\ fpc = "boot"
    /\ \E r \in {"ok", "failed", "copy_failed"} :
         /\ fatfs' = IF r = "failed" THEN fatfs
                     ELSE [fatfs EXCEPT !.FATSize32 = FATSize32(fsectors),
                                        !.totalSectors32 = fsectors]
         /\ fpc' = IF r = "ok" THEN "fsinfo" ELSE "failed"
    /\ UNCHANGED fsectors
    /\ UNCHANGED <<core, cvars, wvars, evars>>

\* writeFSInfo: sectors 1 and 7.
WriteFSInfo ==
    /\ fpc = "fsinfo"
    /\ \E r \in {"ok", "failed"} :
         /\ fatfs' = [fatfs EXCEPT !.fsInfo = (r = "ok")]
         /\ fpc' = IF r = "ok" THEN "fats" ELSE "failed"
    /\ UNCHANGED fsectors
    /\ UNCHANGED <<core, cvars, wvars, evars>>

\* writeFATs: one sector holding entries 0..2 at sector 32 and one at sector
\* 32 + fatSectors.
WriteFATs ==
    /\ fpc = "fats"
    /\ \E r \in {"ok", "failed", "second_failed"} :
         /\ fatfs' = CASE r = "ok" ->
                            [fatfs EXCEPT !.fat1At = 32, !.fat1 = FatHead,
                                          !.fat2At = 32 + fatSectors(fsectors),
                                          !.fat2 = FatHead]
                       [] r = "second_failed" ->
                            [fatfs EXCEPT !.fat1At = 32, !.fat1 = FatHead]
                       [] OTHER -> fatfs
         /\ fpc' = IF r = "ok" THEN "root" ELSE "failed"
    /\ UNCHANGED fsectors
    /\ UNCHANGED <<core, cvars, wvars, evars>>

\* initializeRootDirectory: eight zero sectors at 32 + 2 * fatSectors; then
\* create() returns true.
InitializeRootDirectory ==
    /\ fpc = "root"
    /\ \E r \in {"ok", "failed"} :
         /\ fatfs' = IF r = "ok"
                     THEN [fatfs EXCEPT !.rootAt = 32 + 2 * fatSectors(fsectors)]
                     ELSE fatfs
         /\ fpc' = IF r = "ok" THEN "done" ELSE "failed"
    /\ UNCHANGED fsectors
    /\ UNCHANGED <<core, cvars, wvars, evars>>

NextFat ==
    \/ WriteBootSector
    \/ WriteFSInfo
    \/ WriteFATs
    \/ InitializeRootDirectory

SpecFat == InitFat /\ [][NextFat]_vars

-----------------------------------------------------------------------------
(* DeviceHandler::wipeDevice, in units of a quarter of its buffer's size   *)

\* WIPE_SIZE and BUFFER_SIZE, scaled down: the window and one write's length.
WipeUnits == 4
WipeBufferUnits == 2

\* Device sizes, in the same units: smaller than one window, two windows
\* that touch, and larger.
WipeDeviceUnits == {3, 8, 10, 11, 12}

\* What write(fd, zeros, BUFFER_SIZE) can return at position pos of a device
\* of size n: -1, or the number of units written, full or short.
WriteResults(pos, n) == {-1} \cup (1..Min(WipeBufferUnits, n - pos))

InitWipe ==
    /\ CoreIdle
    /\ IdleBut("wipe")
    /\ wsize \in WipeDeviceUnits
    /\ zeroed = {}
    /\ wpos = 0
    /\ wtotal = 0
    /\ wpc = "first"

\* One pass of the first loop: a write at the file position; -1 throws.
WipeFirstWindow ==
    /\ wpc = "first"
    /\ wtotal < WipeUnits
    /\ \E written \in WriteResults(wpos, wsize) :
         IF written < 0
         THEN /\ wpc' = "failed"
              /\ UNCHANGED <<zeroed, wpos, wtotal>>
         ELSE /\ zeroed' = zeroed \cup (wpos..(wpos + written - 1))
              /\ wpos' = wpos + written
              /\ wtotal' = wtotal + written
              /\ UNCHANGED wpc
    /\ UNCHANGED wsize
    /\ UNCHANGED <<core, cvars, fvars, evars>>

\* After the first loop: BLKGETSIZE64 and lseek to deviceSize - WIPE_SIZE;
\* when either fails the last window is skipped. The seek fails on a device
\* smaller than the window.
WipeSeekLast ==
    /\ wpc = "first"
    /\ wtotal >= WipeUnits
    /\ \E ok \in BOOLEAN :
         IF ok /\ wsize - WipeUnits >= 0
         THEN /\ wpos' = wsize - WipeUnits
              /\ wtotal' = 0
              /\ wpc' = "last"
         ELSE /\ wpc' = "reread"
              /\ UNCHANGED <<wpos, wtotal>>
    /\ UNCHANGED <<wsize, zeroed>>
    /\ UNCHANGED <<core, cvars, fvars, evars>>

\* One pass of the second loop: -1 leaves the loop.
WipeLastWindow ==
    /\ wpc = "last"
    /\ IF wtotal < WipeUnits
       THEN \E written \in WriteResults(wpos, wsize) :
              IF written < 0
              THEN /\ wpc' = "reread"
                   /\ UNCHANGED <<zeroed, wpos, wtotal>>
              ELSE /\ zeroed' = zeroed \cup (wpos..(wpos + written - 1))
                   /\ wpos' = wpos + written
                   /\ wtotal' = wtotal + written
                   /\ UNCHANGED wpc
       ELSE /\ wpc' = "reread"
            /\ UNCHANGED <<zeroed, wpos, wtotal>>
    /\ UNCHANGED wsize
    /\ UNCHANGED <<core, cvars, fvars, evars>>

\* fsync, close, BLKRRPART on a new descriptor, sleep(1), return true.
WipeReread ==
    /\ wpc = "reread"
    /\ wpc' = "done"
    /\ UNCHANGED <<wsize, zeroed, wpos, wtotal>>
    /\ UNCHANGED <<core, cvars, fvars, evars>>

NextWipe ==
    \/ WipeFirstWindow
    \/ WipeSeekLast
    \/ WipeLastWindow
    \/ WipeReread

SpecWipe == InitWipe /\ [][NextWipe]_vars

-----------------------------------------------------------------------------
(* EXT4Creator::create                                                     *)

\* Ext4SuperBlock::s_magic, 0xEF53; it lies 56 bytes into the superblock,
\* which is written at offset 1024.
Ext4Magic == 61267
MagicOffset == 1080

\* inodesPerGroup and blocksPerGroup of writeSuperBlock.
InodesPerGroup == 8192
BlocksPerGroup == 32768

\* The superblock writeSuperBlock builds for a device of n blocks of 4096
\* bytes: the fields the model keeps.
SuperBlock(n) ==
    [s_magic |-> Ext4Magic,
     s_blocks_count_lo |-> n,
     s_inodes_count |-> InodesPerGroup * ((n + BlocksPerGroup - 1) \div BlocksPerGroup)]

\* Sizes of the partition formatted, in blocks of 4096 bytes.
Ext4DeviceBlocks ==
    {1024, 2048, 16384, 32768, 32769, 65536, 131072, 268288, 524288, 1048576,
     2097152, 4194304}

InitExt4 ==
    /\ CoreIdle
    /\ IdleBut("ext4")
    /\ eblocks \in Ext4DeviceBlocks
    /\ esuper = NoSuperBlock
    /\ ereads = {}
    /\ eresult = "none"
    /\ epc = "open"

\* create(): open and BLKGETSIZE64; either failing throws DeviceError.
Ext4Open ==
    /\ epc = "open"
    /\ \E r \in {"ok", "open_failed", "size_failed"} :
         IF r = "ok"
         THEN epc' = "superblock" /\ UNCHANGED eresult
         ELSE epc' = "returned" /\ eresult' = r
    /\ UNCHANGED <<eblocks, esuper, ereads>>
    /\ UNCHANGED <<core, cvars, fvars, wvars>>

\* writeSuperBlock: seek to 1024 and write; a failed seek or a short write
\* returns false. What the medium holds after a write that returned the full
\* length is the superblock, or not, on a medium that does not keep data.
WriteSuperBlock ==
    /\ epc = "superblock"
    /\ \E r \in {"ok", "seek_failed", "short_write"}, kept \in BOOLEAN :
         CASE r = "ok" ->
                /\ esuper' = IF kept THEN SuperBlock(eblocks)
                             ELSE [SuperBlock(eblocks) EXCEPT !.s_magic = 0]
                /\ epc' = "groups"
                /\ UNCHANGED eresult
           [] r = "short_write" ->
                /\ esuper' = [SuperBlock(eblocks) EXCEPT !.s_magic = 0]
                /\ epc' = "returned"
                /\ eresult' = "false"
           [] OTHER ->
                /\ epc' = "returned"
                /\ eresult' = "false"
                /\ UNCHANGED esuper
    /\ UNCHANGED <<eblocks, ereads>>
    /\ UNCHANGED <<core, cvars, fvars, wvars>>

\* createBlockGroups and createRootInode return true and do nothing; then
\* fsync and return true.
Ext4Finish ==
    /\ epc = "groups"
    /\ epc' = "returned"
    /\ eresult' = "true"
    /\ UNCHANGED <<eblocks, esuper, ereads>>
    /\ UNCHANGED <<core, cvars, fvars, wvars>>

NextExt4 ==
    \/ Ext4Open
    \/ WriteSuperBlock
    \/ Ext4Finish

SpecExt4 == InitExt4 /\ [][NextExt4]_vars

-----------------------------------------------------------------------------
(* IntelligentBurner::burnMultipart: the table it builds on sector 0        *)

EFI_SYSTEM == 239
\* The EFI System Partition's size, in MiB.
EspMB == 512
\* The sectors added to the image's size for the main partition.
MainPaddingSectors == 4096

\* The BurnConfig values burnWithStrategy hands to burnMultipart: the
\* strategy is MULTIPART for an image that boots both ways or embeds more
\* than one partition.
MultipartConfigs ==
    {c \in [hasUEFI : BOOLEAN, hasLegacyBoot : BOOLEAN, embeddedPartitions : {0, 2},
            isoMB : {700, 1400}, persistence : BOOLEAN, persistMB : {0, 512, 1024}] :
        /\ (c.hasUEFI /\ c.hasLegacyBoot) \/ c.embeddedPartitions > 1
        /\ c.persistence <=> c.persistMB > 0}

\* isoSectors of burnMultipart.
isoSectors(c) == c.isoMB * SectorsPerMiB + MainPaddingSectors

\* currentSector when the main partition is added.
MainStart(c) == StartSector + (IF c.hasUEFI THEN EspMB * SectorsPerMiB ELSE 0)

InitMultipart ==
    /\ FunctionsIdle
    /\ AnalyseIdle
    /\ BurnIdle
    /\ MainIdle
    /\ PathsIdle
    /\ tdeviceMB \in {4096, 8192}
    /\ trun \in MultipartConfigs
    /\ mbr = ZeroSector
    /\ tpc = "mp_create"
    /\ tlast = NoCall
    /\ tbefore = mbr

\* burnMultipart: ptable.initialize() and ptable.createMBR().
MultipartCreateMBR ==
    /\ tpc = "mp_create"
    /\ \E io \in {"ok", "failed"}, sig \in DiskSignatures :
         IF io = "ok"
         THEN /\ mbr' = createMBR(sig)
              /\ tpc' = "mp_esp"
         ELSE /\ UNCHANGED mbr
              /\ tpc' = "mp_failed"
    /\ UNCHANGED <<tdeviceMB, trun, tlast, tbefore>>
    /\ UNCHANGED <<avars, bvars, mvars, pvars, yvars>>

\* burnMultipart: the EFI System Partition, when the image has UEFI boot
\* files.
MultipartAddESP ==
    /\ tpc = "mp_esp"
    /\ IF trun.hasUEFI
       THEN /\ \E io \in AddOutcomes :
                 AddCall(StartSector, EspMB * SectorsPerMiB, EFI_SYSTEM, TRUE, io)
            /\ tpc' = IF tlast'.result = "ok" THEN "mp_main" ELSE "mp_failed"
       ELSE /\ tpc' = "mp_main"
            /\ UNCHANGED <<mbr, tlast, tbefore>>
    /\ UNCHANGED <<tdeviceMB, trun>>
    /\ UNCHANGED <<avars, bvars, mvars, pvars, yvars>>

\* burnMultipart: the main data partition, bootable when there is no UEFI.
MultipartAddMain ==
    /\ tpc = "mp_main"
    /\ \E io \in AddOutcomes :
         AddCall(MainStart(trun), isoSectors(trun), FAT32_LBA, ~trun.hasUEFI, io)
    /\ tpc' = IF tlast'.result = "ok" THEN "mp_persist" ELSE "mp_failed"
    /\ UNCHANGED <<tdeviceMB, trun>>
    /\ UNCHANGED <<avars, bvars, mvars, pvars, yvars>>

\* burnMultipart: the persistence partition, when asked for.
MultipartAddPersistence ==
    /\ tpc = "mp_persist"
    /\ IF trun.persistence
       THEN /\ \E io \in AddOutcomes :
                 AddCall(MainStart(trun) + isoSectors(trun), ToSectors32(trun.persistMB),
                         LINUX_NATIVE, FALSE, io)
            /\ tpc' = IF tlast'.result = "ok" THEN "mp_commit" ELSE "mp_failed"
       ELSE /\ tpc' = "mp_commit"
            /\ UNCHANGED <<mbr, tlast, tbefore>>
    /\ UNCHANGED <<tdeviceMB, trun>>
    /\ UNCHANGED <<avars, bvars, mvars, pvars, yvars>>

\* burnMultipart: ptable.commit().
MultipartCommit ==
    /\ tpc = "mp_commit"
    /\ tpc' = "mp_done"
    /\ UNCHANGED <<tdeviceMB, trun, mbr, tlast, tbefore>>
    /\ UNCHANGED <<avars, bvars, mvars, pvars, yvars>>

NextMultipart ==
    \/ MultipartCreateMBR
    \/ MultipartAddESP
    \/ MultipartAddMain
    \/ MultipartAddPersistence
    \/ MultipartCommit

SpecMultipart == InitMultipart /\ [][NextMultipart]_vars

-----------------------------------------------------------------------------
(* C3 .. C8                                                                *)

Range(f) == {f[i] : i \in DOMAIN f}

\* The ways a run ends before it has looked at the device path.
EndsBeforePartitionCheck == {"usage", "help", "bad_arguments", "permission", "info_only"}

\* The ways a run ends before it compares the sizes.
EndsBeforeSizeCheck ==
    EndsBeforePartitionCheck
        \cup {"is_partition", "invalid_device", "invalid_iso", "size_unreadable"}

\* No step has touched the device or the mount table.
DeviceUntouched == log = << >> /\ disk = OldDisk

DestructivePhases == {"wipe", "table", "format", "write"}

\* C3: whenever a destructive phase (wipe, partition-table write, format,
\* image write; primary path and fallback alike) begins, the mount table holds
\* no entry of the target device or of a /dev/<base>* partition of it; and the
\* mount check reports the device mounted exactly when such an entry exists.
C3_NothingMountedAtDestructivePhase ==
    /\ mountedAt \cap DestructivePhases = {}
    /\ (pc \notin {"start", "done"}) =>
          (isDeviceMounted(mtab, opts.device) <=> GlobEntries(mtab, opts.device) # {})

\* MiB of the image, rounded up.
CeilMiB(sectors) == (sectors + SectorsPerMiB - 1) \div SectorsPerMiB

\* The spec's requiredMiB = ceil(isoBytes / MiB) + 200 + persistenceMiB + 100.
RequiredMiB == CeilMiB(iso.size) + 200 + opts.persistenceSize + 100

\* C4: in a persistence run whose requiredMiB exceeds the device's MiB, no
\* byte of the device is ever written, and the run, once it has compared the
\* sizes and been confirmed, ends with the insufficient-space error and exit
\* code 1.
C4_InsufficientSpaceRefused ==
    (/\ opts.usePersistence
     /\ iso.size <= deviceSize
     /\ RequiredMiB > deviceSize \div SectorsPerMiB) =>
        /\ disk = OldDisk
        /\ (pc = "done"
              /\ outcome \notin EndsBeforeSizeCheck \cup {"dry_run", "cancelled"}) =>
               (outcome = "insufficient_space" /\ exitCode = 1)

\* C5: the fallback starts only after a write failure or a bootloader-install
\* failure of the persistence path; after any other error of that path the
\* run ends with exit code 1 and the fallback never starts.
C5_FallbackOnlyAfterWriteOrBootloaderFailure ==
    /\ path = "fallback" => primaryErr \in {"write_failed", "bootloader_failed"}
    /\ (pc = "done" /\ primaryErr \notin {"none", "write_failed", "bootloader_failed"}) =>
           exitCode = 1

\* C6: when the image is larger than the device, nothing has unmounted, wiped
\* or written the device at any point of the run, with or without
\* persistence, and a run that gets as far as comparing the sizes ends with
\* the device-too-small error and exit code 1.
C6_DeviceTooSmallBeforeAnyWrite ==
    iso.size > deviceSize =>
        /\ DeviceUntouched
        /\ pc \in {"start", "privileges", "partition_check", "validate", "done"}
        /\ (pc = "done" /\ outcome \notin EndsBeforeSizeCheck) =>
               (outcome = "device_too_small" /\ exitCode = 1)

\* A persistence run on a device with mounted partitions has been refused
\* because the image is larger than the device.
C6_Witness ==
    /\ pc = "done" /\ outcome = "device_too_small" /\ exitCode = 1
    /\ iso.size > deviceSize
    /\ opts.usePersistence
    /\ mtab # {}

\* C7: a successful raw burn (no persistence) of a hybrid image has not run
\* the bootloader step, and the device's first 440 bytes and the image bytes
\* after them are the image's own.
C7_RawHybridKeepsImageBootCode ==
    (pc = "done" /\ outcome = "success" /\ ~opts.usePersistence /\ iso.hybrid) =>
        /\ "bootloader" \notin Range(log)
        /\ disk.boot = "image"
        /\ disk.body = "image"

AllDigits(t) == Len(t) > 0 /\ \A i \in 1..Len(t) : t[i] \in Digits

\* /dev/nvme<N>n<M> or /dev/mmcblk<N>: a whole nvme or mmc disk.
NamesWholeNvmeOrMmcDisk(device) ==
    LET nvme == <<"/", "d", "e", "v", "/", "n", "v", "m", "e">>
        mmc == <<"/", "d", "e", "v", "/", "m", "m", "c", "b", "l", "k">>
        after(pre) == SubSeq(device, Len(pre) + 1, Len(device))
    IN  \/ FindAtZero(device, mmc) /\ AllDigits(after(mmc))
        \/ /\ FindAtZero(device, nvme)
           /\ \E k \in 1..Len(after(nvme)) :
                 /\ after(nvme)[k] = "n"
                 /\ AllDigits(SubSeq(after(nvme), 1, k - 1))
                 /\ AllDigits(SubSeq(after(nvme), k + 1, Len(after(nvme))))

\* C8: device validation answers IsPartition exactly when the path's last
\* character is a decimal digit and the path does not name a whole nvme or
\* mmc disk, and a rejected run writes nothing: /dev/sdb3 and /dev/nvme0n1p1
\* are rejected, /dev/sdb, /dev/nvme0n1 and /dev/mmcblk0 are accepted.
C8_IsPartitionIffTrailingDigitNotWholeDisk ==
    (pc \notin {"start", "privileges", "partition_check"}
        /\ outcome \notin EndsBeforePartitionCheck) =>
        /\ (outcome = "is_partition") <=>
               (/\ opts.device # << >>
                /\ opts.device[Len(opts.device)] \in Digits
                /\ ~NamesWholeNvmeOrMmcDisk(opts.device))
        /\ outcome = "is_partition" => DeviceUntouched

-----------------------------------------------------------------------------
(* C11 .. C14, C16 .. C18                                                  *)

\* The spec's maxPersistenceMiB = deviceMiB - ceil(isoBytes/MiB) - 300.
MaxPersistenceMiB == (deviceSize \div SectorsPerMiB) - CeilMiB(iso.size) - 300

\* C11: an insufficient-space report offers maxPersistenceMiB = deviceMiB -
\* ceil(isoBytes/MiB) - 300 as the maximum persistence size when that value is
\* at least 512, and says that the device is too small for persistence when it
\* is below 512, as it is whenever image and reserve do not fit at all.
C11_ReportOffersMaximumOnlyFrom512 ==
    report.said # "none" =>
        IF MaxPersistenceMiB < 512
        THEN report.said = "too_small"
        ELSE report.said = "maximum" /\ report.maxMB = MaxPersistenceMiB

\* The positions of the persistence pipeline's partition step.
PartitionStep == {"sp_table", "sp_add1", "sp_add2", "sp_commit"}

\* The device has room for the image, the reserve and 512 MiB of persistence.
RoomForMinimum ==
    CeilMiB(iso.size) + 200 + 512 + 100 <= deviceSize \div SectorsPerMiB

\* C12: at the partition step the persistence size in use is at least 512 MiB;
\* a request below 512 MiB is raised to 512 when the device has room for
\* image, reserve and 512 MiB, and when it has not the run is refused without
\* any write to the device.
C12_PersistenceAtLeast512 ==
    /\ pc \in PartitionStep => persistenceSizeMB >= 512
    /\ (opts.usePersistence /\ opts.persistenceSize < 512) =>
          IF RoomForMinimum
          THEN pc \in PartitionStep => persistenceSizeMB = 512
          ELSE disk = OldDisk

\* The run is past the prompt for the partition-table type.
PastPrompt ==
    /\ pc \notin {"start", "privileges", "partition_check", "validate", "space_check",
                  "prompt"}
    /\ outcome \notin EndsBeforeSizeCheck \cup {"device_too_small", "insufficient_space"}

\* C13: when -t gives the partition-table type, the prompt does not replace
\* it: after the prompt the run's table type is the one given with -t; the
\* prompt's answer is used only without -t.
C13_TableTypeOptionIsKept ==
    (argv.t # "none" /\ PastPrompt) => opts.tableType = parseTableType(argv.t)

\* C14: no destructive step (unmount, wipe, table write, format, image write)
\* and no bootloader step happens unless dry-run is off and the answer was
\* exactly "yes" or --force was given; a dry run and a declined confirmation
\* end with status 0 and the device unchanged.
C14_DestructiveOnlyAfterConfirmation ==
    /\ (log # << >> \/ disk # OldDisk) =>
          ~opts.dryRun /\ (answer = "yes" \/ opts.forceOperation)
    /\ outcome \in {"dry_run", "cancelled"} =>
          pc = "done" /\ exitCode = 0 /\ DeviceUntouched
    /\ (pc = "done" /\ opts.dryRun /\ outcome \notin EndsBeforeSizeCheck
            \cup {"device_too_small", "insufficient_space"}) => outcome = "dry_run"

\* A run that typed something other than "yes" without --force and ended, and
\* a forced run that wrote the device after such an answer.
C14_Witness ==
    \/ outcome = "cancelled" /\ answer = "y" /\ ~opts.forceOperation
    \/ log # << >> /\ answer = "y" /\ opts.forceOperation

\* Step a is recorded before step b.
Precedes(a, b) == \E i, j \in DOMAIN log : i < j /\ log[i] = a /\ log[j] = b

\* The stage a recorded step belongs to: PREPARE 1, WIPE 2, PARTITION 3,
\* FORMAT 4, POPULATE 5, BOOTLOADER 6.
StageOf == [unmount |-> 1, wipe |-> 2, table |-> 3, format |-> 4, write |-> 5,
            bootloader |-> 6]

\* C16: a persistence run goes through its stages in the order PREPARE, WIPE,
\* PARTITION, FORMAT, POPULATE, BOOTLOADER, FINALISE: no recorded step belongs
\* to an earlier stage than the step before it, so every format precedes the
\* populate step, and populating leaves the FAT32 filesystem of partition 1
\* in place.
C16_StagesInOrder ==
    path = "primary" =>
        /\ \A i, j \in DOMAIN log : i < j => StageOf[log[i]] <= StageOf[log[j]]
        /\ Precedes("format", "write") => disk.p1 \in {"fat32", "fat32_cfg"}

\* C17: every bootloader installation attempt comes strictly after the last
\* filesystem format of the run: no format is recorded after a bootloader
\* attempt.
C17_BootloaderAfterLastFormat == ~Precedes("bootloader", "format")

\* The partitions a persistence run has handed to a formatter so far.
FormatAttempted ==
    IF path # "primary" THEN {}
    ELSE CASE pc \in {"sp_burn", "sp_burnboot", "sp_persist"} -> {1}
           [] pc = "sp_boot" -> {1, 2}
           [] pc = "done" /\ Precedes("format", "format") -> {1, 2}
           [] OTHER -> {}

\* C18: after the table is committed the run polls for the partition path
\* with up to ten retries: it reports the partition missing only when the
\* node is absent after the last retry, a node that appears at any retry lets
\* the run go on, and every partition handed to a formatter has been seen
\* present.
C18_PollsTenRetriesAndFormatsOnlySeen ==
    /\ primaryErr = "partition_missing" => nodeAt > PollRetries + 1
    /\ FormatAttempted \subseteq statSeen

-----------------------------------------------------------------------------
(* C15, C20                                                                *)

\* A stored sector number is this many whole MiB.
IsMiB(sectors, mb) == sectors % SectorsPerMiB = 0 /\ sectors \div SectorsPerMiB = mb

\* C15: after a successful MBR persistence run, entry 0 of sector 0 is
\* (start 2048, length isoSectors, type 0x0C, bootable) and entry 1 is
\* (start 2048 + isoSectors, length persistenceMiB * 2048, type 0x83 for ext4
\* else 0x0C, not bootable), with isoSectors the image's padded size in
\* sectors; the two ranges do not overlap, end at or before the last sector
\* of the device, and no stored value is a wrapped result.
C15_EntriesAsComputedWithoutWrap ==
    (tpc = "t_done" /\ trun.tableType = "MBR") =>
        LET e0 == mbr.partitions[1]
            e1 == mbr.partitions[2]
            isoMB == trun.isoMB + IsoPaddingMB
        IN  /\ e0.firstLBA = 2048
            /\ IsMiB(e0.sectorCount, isoMB)
            /\ e0.partitionType = 12
            /\ e0.status = 128
            /\ IsMiB(e1.firstLBA, 1 + isoMB)
            /\ IsMiB(e1.sectorCount, trun.persistMB)
            /\ e1.partitionType = IF trun.fsType = "EXT4" THEN 131 ELSE 12
            /\ e1.status = 0
            /\ e0.firstLBA + e0.sectorCount <= e1.firstLBA
            /\ (e1.firstLBA + e1.sectorCount) \div SectorsPerMiB <= tdeviceMB

\* The entries of sector m whose type byte is 0x00.
FreeEntries(m) == {i \in 1..4 : m.partitions[i].partitionType = 0}

\* C20: a call of addMBRPartition that succeeds has filled the first of the
\* four entries whose type byte was 0x00 with exactly the given start LBA,
\* sector count, type and boot flag, and left the other three entries, the
\* boot code, the disk signature and the 0xAA55 trailer as they were; with
\* all four entries occupied a call whose read succeeds fails with
\* table-full; a call that fails before writing leaves sector 0 unchanged;
\* and no call changes an entry whose type byte was not 0x00.
C20_AddFillsFirstFreeEntryOnly ==
    tlast.op = "add" =>
        LET free == FreeEntries(tbefore)
            given == [status |-> IF tlast.bootable THEN 128 ELSE 0,
                      partitionType |-> tlast.type,
                      firstLBA |-> tlast.startLBA,
                      sectorCount |-> tlast.sectorCount]
        IN  /\ tlast.result = "ok" =>
                  \E i \in free :
                     /\ \A j \in free : i <= j
                     /\ mbr.partitions[i] = given
                     /\ \A j \in (1..4) \ {i} : mbr.partitions[j] = tbefore.partitions[j]
            /\ mbr.bootCode = tbefore.bootCode
            /\ mbr.diskSignature = tbefore.diskSignature
            /\ mbr.signature = tbefore.signature
            /\ (free = {} /\ tlast.result # "read_failed") => tlast.result = "table_full"
            /\ tlast.result \in {"table_full", "read_failed"} => mbr = tbefore
            /\ \A i \in (1..4) \ free : mbr.partitions[i] = tbefore.partitions[i]

\* A call that succeeded on a table whose first entry was occupied and whose
\* second and fourth were free, and filled the second.
C20_Witness ==
    /\ tlast.op = "add"
    /\ tlast.result = "ok"
    /\ FreeEntries(tbefore) = {2, 4}
    /\ mbr.partitions[2].partitionType = tlast.type
    /\ tlast.type # 0

-----------------------------------------------------------------------------
(* C19                                                                     *)

\* The one convention: <base>N, or <base>pN when the base contains nvme or
\* mmcblk.
Convention(base, n) ==
    base \o (IF \/ \E i \in 1..(Len(base) - 3) :
                      SubSeq(base, i, i + 3) = <<"n", "v", "m", "e">>
                \/ \E i \in 1..(Len(base) - 5) :
                      SubSeq(base, i, i + 5) = <<"m", "m", "c", "b", "l", "k">>
             THEN <<"p">> ELSE << >>) \o <<n>>

\* The partition of the device each use of a path is meant for.
IndexOfUse == [checked1 |-> "1", formatted1 |-> "1", written1 |-> "1",
               burnBoot1 |-> "1", formatted2 |-> "2", boot1 |-> "1",
               fallback1 |-> "1"]

\* C19: every partition path derived for the device follows the one
\* convention, so the path checked for presence, the paths formatted, the
\* path written, the paths mounted for the bootloader and the path the
\* fallback mounts name the same partition for the same index.
C19_OneConventionForEveryPath ==
    \A use \in DOMAIN derived :
        derived[use] # << >> => derived[use] = Convention(pdevice, IndexOfUse[use])

-----------------------------------------------------------------------------
(* C21 .. C30                                                              *)

\* The LBA three CHS bytes stand for, with 63 sectors per track and 255
\* heads: the inverse of the encoding.
DecodeCHS(b) ==
    LET cylinder == ((b[2] \div 64) % 4) * 256 + b[3]
        head == b[1]
        sector == b[2] % 64
    IN  (cylinder * 255 + head) * 63 + sector - 1

\* The last LBA three CHS bytes can hold: cylinder 1023, head 254, sector 63.
ClampedLba == (1023 * 255 + 254) * 63 + 62

\* C21: for every LBA L, decoding the three bytes calculateCHS produced gives
\* back min(L, the clamped value): L itself while it fits, the last LBA the
\* bytes can hold when it does not.
C21_ChsRoundTrip ==
    cpc = "done" =>
        DecodeCHS(chs) = IF lba < ClampedLba THEN lba ELSE ClampedLba

\* Sector 0 is as createMBR has just written it: in a persistence run with
\* table type MBR before the first partition is added, or after a call of
\* createMBR on its own.
JustCreatedMBR ==
    \/ tpc = "t_add1" /\ trun.tableType = "MBR"
    \/ tpc = "calls" /\ tlast.op = "createMBR"

\* C22: after createMBR sector 0 is zero except for the eight-byte stub at
\* bytes 0..7, the disk signature and the trailer: byte 510 is 0x55 and byte
\* 511 is 0xAA, all four entries are empty, and the disk signature is not
\* zero whatever the random source returned.
C22_CreateMbrSector ==
    JustCreatedMBR =>
        /\ mbr.bootCode.stub = <<250, 49, 192, 142, 208, 188, 0, 124>>
        /\ mbr.bootCode.fill = 0
        /\ mbr.reserved = 0
        /\ \A i \in 1..4 : mbr.partitions[i] = EmptyEntry
        /\ mbr.signature % 256 = 85
        /\ mbr.signature \div 256 = 170
        /\ mbr.diskSignature # 0

\* A persistence run with table type GPT has created its table.
GptCreated ==
    /\ trun.tableType = "GPT"
    /\ tpc \in {"t_add1", "t_add2", "t_commit", "t_done"}

\* C23: once a GPT has been created, the protective MBR in sector 0 holds
\* exactly one non-empty entry, of type 0xEE, first LBA 1 and sector count
\* min(device sectors - 1, 0xFFFFFFFF), in every later state of the run,
\* also after the persistence pipeline has added its partitions.
C23_ProtectiveMbrKeepsOneEntry ==
    GptCreated =>
        /\ mbr.partitions[1].partitionType = 238
        /\ mbr.partitions[1].firstLBA = 1
        /\ mbr.partitions[1].sectorCount = tdeviceMB * SectorsPerMiB - 1
        /\ \A i \in 2..4 : mbr.partitions[i].partitionType = 0

\* C24: the FAT32 formatter places the second FAT at sector 32 + FAT_size_32
\* and zeroes the root-directory cluster at sector 32 + 2 * FAT_size_32,
\* FAT_size_32 being the value it stored in the boot sector,
\* ceil((device sectors - 32) / (256 * 8 + 2)); entries 0..2 of both FATs
\* are 0x0FFFFFF8, 0x0FFFFFFF, 0x0FFFFFFF.
C24_FatsWhereBootSectorSays ==
    /\ fatfs.FATSize32 # -1 =>
          /\ fatfs.FATSize32 * 2050 >= fsectors - 32
          /\ (fatfs.FATSize32 - 1) * 2050 < fsectors - 32
    /\ fatfs.fat1At # -1 => fatfs.fat1At = 32 /\ fatfs.fat1 = FatHead
    /\ fatfs.fat2At # -1 =>
          fatfs.fat2At = 32 + fatfs.FATSize32 /\ fatfs.fat2 = FatHead
    /\ fatfs.rootAt # -1 => fatfs.rootAt = 32 + 2 * fatfs.FATSize32

\* The two windows of a device of n units: its first and its last WipeUnits.
WipeWindows(n) == (0..(WipeUnits - 1)) \cup ((n - WipeUnits)..(n - 1))

\* C25: wipeDevice zeroes the first and the last window of the device and
\* nothing outside them, whatever full and short results the writes give:
\* no unit outside the two windows is ever written, the first window is
\* whole once the first loop has ended, a failed write in the first window
\* ends the call with an error, one in the last window does not, and the
\* re-read of the partition table comes after both loops.
C25_WipesOnlyTheTwoWindows ==
    /\ zeroed \subseteq WipeWindows(wsize)
    /\ wpc \in {"last", "reread", "done"} => (0..(WipeUnits - 1)) \subseteq zeroed
    /\ wpc = "failed" => ~((0..(WipeUnits - 1)) \subseteq zeroed)

\* C26: the ext4 formatter verifies the superblock's magic by reading it
\* back: create() reports success only after it has read the 16-bit value at
\* offset 1080 and found 0xEF53 there, and fails with a verify error
\* otherwise.
C26_Ext4MagicReadBack ==
    /\ eresult = "true" => MagicOffset \in ereads /\ esuper.s_magic = Ext4Magic
    /\ (epc = "returned" /\ esuper # NoSuperBlock /\ esuper.s_magic # Ext4Magic) =>
          eresult \in {"false", "verify_failed"}

\* C27: when the byte streamer has returned or thrown, every descriptor it
\* opened and the aligned buffer it allocated have been released exactly once:
\* none is still open or allocated, none was closed or freed a second time.
C27_ResourcesReleasedExactlyOnce ==
    bpc = "done" =>
        /\ \A f \in DOMAIN fds : fds[f] \in {"unopened", "closed"}
        /\ bufState \in {"none", "freed"}

\* C28: in the table burnMultipart has built, at most one entry is marked
\* bootable; when an ESP was created and the image is not UEFI-only the
\* bootable entry is the main data partition, and the ESP is marked bootable
\* only for a UEFI-only image.
Bootable(m) == {i \in 1..4 : m.partitions[i].status = BootFlag}

C28_OnlyMainBootableUnlessUefiOnly ==
    tpc \in {"mp_persist", "mp_commit", "mp_done"} =>
        LET uefiOnly == trun.hasUEFI /\ ~trun.hasLegacyBoot
        IN  /\ Cardinality(Bootable(mbr)) <= 1
            /\ \A i \in Bootable(mbr) :
                   mbr.partitions[i].partitionType = EFI_SYSTEM => uefiOnly
            /\ (trun.hasUEFI /\ ~uefiOnly) =>
                   \E i \in Bootable(mbr) : mbr.partitions[i].partitionType = FAT32_LBA

\* What a step that did not succeed leaves behind on the device: an image
\* copy cut short by a read error, a persistence partition the formatter did
\* not make, a fallback without its persistence file.
CopyCutShort == disk.body = "partial" \/ disk.p1 = "partial"
PersistenceNotFormatted == path = "primary" /\ disk.p2 # opts.fsType
FallbackFileMissing == path = "fallback" /\ disk.body # "image_file"

\* C29: a run ends with the success line and exit code 0 only if every step
\* it ran succeeded: after a formatter step that returned failure, a read
\* error during the image copy or a fallback that could not mount the device,
\* the run ends with exit code 1.
C29_SuccessOnlyWhenEveryStepSucceeded ==
    (pc = "done" /\ (CopyCutShort \/ PersistenceNotFormatted \/ FallbackFileMissing)) =>
        (outcome # "success" /\ exitCode # 0)

\* The refusals of the persistence step that depend on the command line and
\* the size of the device alone.
InputOnlyRefusals == {"unsupported_filesystem", "persistence_too_large"}

\* C30: a refusal that depends only on the run's inputs is raised before the
\* first write to the device: when the persistence filesystem is refused as
\* unsupported, or the persistence size as too large for the device, no wipe,
\* partition-table write, format or image write has been done.
C30_InputRefusalsBeforeFirstWrite ==
    [][(primaryErr = "none" /\ primaryErr' \in InputOnlyRefusals) =>
           Range(log) \cap DestructivePhases = {}]_vars

====
